---- MODULE Spec2Model ----
(***************************************************************************)
(* Model of the chat-completions translation engine of                     *)
(* src/API/openai_server.py: the streaming relay generate(), the           *)
(* non-streaming path of chat_completions, estimate_tokens and             *)
(* extract_usage_from_puter_response.                                      *)
(*                                                                         *)
(* generate() is a Python generator: it runs from one yield to the next    *)
(* each time the consumer pulls a frame.  pc is its position; the values   *)
(* "y_..." are the yields at which it is suspended.                        *)
(***************************************************************************)
EXTENDS Integers, Sequences, FiniteSets, TLC

\* ------------------------------------------------------------------ bounds
\* Largest number of upstream lines one status-200 stream delivers.
MaxLines == 3

\* ------------------------------------------------------- JSON-like values
\* A JSON value in a text/content position: t is "absent" (key missing),
\* "null", "str" (a string s) or "num" (a truthy non-string whose str() is s).
Absent == [t |-> "absent", s |-> ""]
Null == [t |-> "null", s |-> ""]
Str(x) == [t |-> "str", s |-> x]
Num(x) == [t |-> "num", s |-> x]

\* dict.get(key): a missing key reads as None.
Get(v) == IF v.t = "absent" THEN Null ELSE v

\* Python truthiness of such a value.
Truthy(v) == (v.t = "str" /\ v.s # "") \/ v.t = "num"

\* An amount of a usage item: null, an integer n, or a string s.
AmtNull == [t |-> "null", n |-> 0, s |-> ""]
AmtInt(k) == [t |-> "int", n |-> k, s |-> ""]
AmtStr(x) == [t |-> "str", n |-> 0, s |-> x]

\* One entry of the upstream usage array; type "nondict" is an entry that is
\* not an object.
UsageItem(ty, amt) == [type |-> ty, amount |-> amt]

\* result.usage: t is "absent", "null", "list" (items) or "other" (a truthy
\* value that is not a list).
NoUsageField == [t |-> "absent", items |-> <<>>]
UsageList(items) == [t |-> "list", items |-> items]
UsageOther == [t |-> "other", items |-> <<>>]

\* result.message: "absent", "nondict", or "dict" with a content value.
NoMessage == [t |-> "absent", content |-> Absent]
BadMessage == [t |-> "nondict", content |-> Absent]
Message(c) == [t |-> "dict", content |-> c]

\* The result member of an upstream object: "absent", "nondict" or "dict".
NoResult == [t |-> "absent", message |-> NoMessage, usage |-> NoUsageField]
BadResult == [t |-> "nondict", message |-> NoMessage, usage |-> NoUsageField]
Result(m, u) == [t |-> "dict", message |-> m, usage |-> u]

\* A parsed JSON document: t is "scalar" (anything but an object) or "obj"
\* with the members the code looks at.  success is the truthiness of the
\* success flag (false also when the flag is missing).
Scalar == [t |-> "scalar", type |-> "absent", text |-> Absent,
           success |-> FALSE, result |-> NoResult]
Obj(ty, tx, su, re) == [t |-> "obj", type |-> ty, text |-> tx,
                        success |-> su, result |-> re]

\* The empty dict {} that the finally block passes when no usage was captured.
EmptyDict == Obj("absent", Absent, FALSE, NoResult)

\* final_usage_data = None
None == [t |-> "none", type |-> "absent", text |-> Absent,
         success |-> FALSE, result |-> NoResult]

\* ------------------------------------------------------------ raw lines
\* An upstream line is a sequence of tokens: whitespace, the literal
\* "data:", a run of text that is not JSON, or the text of a JSON document.
WS == [k |-> "ws", s |-> " ", part |-> Scalar]
DATA == [k |-> "data", s |-> "data:", part |-> Scalar]
Txt(x) == [k |-> "txt", s |-> x, part |-> Scalar]
Json(x, p) == [k |-> "json", s |-> x, part |-> p]

RECURSIVE LStrip(_)
LStrip(l) == IF l # <<>> /\ Head(l).k = "ws" THEN LStrip(Tail(l)) ELSE l

RECURSIVE RStrip(_)
RStrip(l) ==
    IF l # <<>> /\ l[Len(l)].k = "ws" THEN RStrip(SubSeq(l, 1, Len(l) - 1)) ELSE l

\* str.strip()
strip(l) == RStrip(LStrip(l))

\* The characters of a token sequence.
RECURSIVE SrcText(_)
SrcText(l) == IF l = <<>> THEN "" ELSE Head(l).s \o SrcText(Tail(l))

\* s = line.strip(); if s.startswith("data:"): s = s[5:].strip()
StripDataPrefix(l) ==
    LET s == strip(l)
    IN  IF s # <<>> /\ Head(s).k = "data" THEN strip(Tail(s)) ELSE s

\* json.loads(s) succeeds exactly on one JSON document.
IsJson(s) == Len(s) = 1 /\ s[1].k = "json"

\* ------------------------------------------------------------- variables
VARIABLES
    stream,               \* bool(body.get("stream", False)) of the request
    user_text,            \* user_text_concat, the concatenated input text
    tiktoken,             \* TRUE iff "import tiktoken" succeeds in this process
    pc,                   \* position of the handler / generator
    frames,               \* the frames yielded to the caller so far, in order
    accumulated_content,  \* generate(): accumulated_content
    final_usage_data,     \* generate(): final_usage_data
    consumed,             \* the lines r.iter_lines() has delivered so far, in order
    r_status,             \* generate(): r.status_code (0 before the call returns)
    exc,                  \* generate(): the exception the except block caught
    conn,                 \* the streaming response r: "none", "open", "closed"
    non_stream_resp,      \* the response of the non-streaming upstream call
    calls,                \* the upstream calls issued so far, in order
    response,             \* what the handler returns to the caller (not a stream)
    req_body,             \* request.get_json(): the request body
    auth_header,          \* the Authorization header of the request
    API_TOKEN,            \* os.getenv('API_TOKEN', '')
    api_key,              \* chat_completions: api_key
    req_messages,         \* chat_completions: messages (normalized)
    payload,              \* chat_completions: payload
    headers,              \* chat_completions: headers = get_puter_headers(api_key)
    PUTER_HEADERS_TEMPLATE, \* the module-level header table, shared by all requests
    peer,                 \* the locals of the other request in flight (<<>>: none)
    cur                   \* which of the two requests is running: 1 or 2

vars == <<stream, user_text, tiktoken, pc, frames, accumulated_content,
          final_usage_data, consumed, r_status, exc, conn, non_stream_resp,
          calls, response, req_body, auth_header, API_TOKEN, api_key, req_messages, payload,
          headers, PUTER_HEADERS_TEMPLATE, peer, cur>>

\* The request and what chat_completions derives from it before any
\* upstream call.
reqvars == <<req_body, auth_header, API_TOKEN, api_key, req_messages, payload, headers>>

\* What belongs to the process and not to the running request: the header
\* table, and the other request while it is suspended.
procvars == <<PUTER_HEADERS_TEMPLATE, peer, cur>>

\* ------------------------------------------------------- estimate_tokens
Max(a, b) == IF a >= b THEN a ELSE b

\* len(enc.encode(text)) of the tiktoken library: 0 for the empty text,
\* otherwise between one token for the whole text and one per character.
TikCounts(s) == IF Len(s) = 0 THEN {0} ELSE {1, Len(s)}

\* if not isinstance(text, str): text = str(text) if text is not None else ""
AsText(v) == IF v.t \in {"null", "absent"} THEN "" ELSE v.s

\* Mutant of estimate_tokens: the character estimate is not raised to 1
\* ("int(len(text) / 4)" without max).
estimate_tokens_NoMinimum(text) ==
    LET s == AsText(text)
    IN  IF tiktoken THEN TikCounts(s) ELSE {Len(s) \div 4}

\* The values estimate_tokens can return for a text.
estimate_tokens(text) ==
    LET s == AsText(text)
    IN  IF tiktoken THEN TikCounts(s) ELSE {Max(1, Len(s) \div 4)}

\* ------------------------------------ extract_usage_from_puter_response
\* Mutant of ScanUsage: the amount is tested with "if amount" instead of
\* "is not None", so an amount of 0 counts as missing.
RECURSIVE ScanUsage_Truthy(_, _, _)
ScanUsage_Truthy(items, ty, acc) ==
    IF items = <<>> THEN acc
    ELSE LET it == Head(items)
         IN  ScanUsage_Truthy(Tail(items), ty,
                 IF it.type = ty /\ it.amount.t # "null" /\ it.amount # AmtInt(0)
                 THEN it.amount ELSE acc)

\* The for loop over the usage array for one type: the amount of the last
\* entry of that type whose amount is not None, else None.
RECURSIVE ScanUsage(_, _, _)
ScanUsage(items, ty, acc) ==
    IF items = <<>> THEN acc
    ELSE LET it == Head(items)
         IN  ScanUsage(Tail(items), ty,
                 IF it.type = ty /\ it.amount.t # "null" THEN it.amount ELSE acc)

\* Python's "x or 0".
OrZero(v) ==
    IF v.t = "null" \/ (v.t = "str" /\ v.s = "") \/ (v.t = "int" /\ v.n = 0)
    THEN AmtInt(0) ELSE v

\* Python's "+" on two such values raises TypeError on an int and a str.
CanAdd(a, b) == a.t = b.t
Plus(a, b) == IF a.t = "int" THEN AmtInt(a.n + b.n) ELSE AmtStr(a.s \o b.s)

\* A usage record; ok = FALSE stands for the call raising instead.
UsageInfo(p, c, tot) ==
    [ok |-> TRUE, prompt_tokens |-> p, completion_tokens |-> c, total_tokens |-> tot]

\* The outcome of a usage computation that raised TypeError.
Raised == [ok |-> FALSE, prompt_tokens |-> AmtNull, completion_tokens |-> AmtNull,
           total_tokens |-> AmtNull]

\* Mutant of total_tokens: the completion count is left out of the sum.
total_tokens_NoCompletion(p, c) == OrZero(p)

total_tokens(p, c) == Plus(OrZero(p), OrZero(c))

\* prompt_tokens after the "if prompt_tokens is None" fallback.
PromptCandidates(scanned, text) ==
    IF scanned.t = "null" THEN {AmtInt(k) : k \in estimate_tokens(text)} ELSE {scanned}

\* completion_tokens after the "if completion_tokens is None" fallback.
CompletionCandidates(scanned, text) ==
    IF scanned.t = "null" THEN {AmtInt(k) : k \in estimate_tokens(text)} ELSE {scanned}

\* The set of outcomes of extract_usage_from_puter_response(data, model,
\* user_text, assistant_text).
extract_usage_from_puter_response(data, utext, atext) ==
    IF data.result.t = "nondict" THEN {Raised}
    ELSE LET puter_usage == data.result.usage
             items == IF puter_usage.t = "list" THEN puter_usage.items ELSE <<>>
             p0 == ScanUsage(items, "prompt", AmtNull)
             c0 == ScanUsage(items, "completion", AmtNull)
         IN  { IF CanAdd(OrZero(p), OrZero(c))
               THEN UsageInfo(p, c, total_tokens(p, c))
               ELSE Raised :
                 p \in PromptCandidates(p0, utext),
                 c \in CompletionCandidates(c0, atext) }

\* ------------------------------------------------ parsing one stream line
\* "if part.get(...).get('usage')": truthiness of result.usage.
UsageTruthy(u) == (u.t = "list" /\ u.items # <<>>) \/ u.t = "other"

\* Mutant of ShapeMatch: the result shape is tried before the text shapes.
ShapeMatch_ResultFirst(part) ==
    IF part.t # "obj"
    THEN [raises |-> FALSE, text_piece |-> Null, capture |-> FALSE]
    ELSE IF part.result.t = "dict"
    THEN IF part.result.message.t = "nondict"
         THEN [raises |-> TRUE, text_piece |-> Null, capture |-> FALSE]
         ELSE [raises |-> FALSE,
               text_piece |-> Get(part.result.message.content),
               capture |-> UsageTruthy(part.result.usage)]
    ELSE IF part.text.t # "absent"
    THEN [raises |-> FALSE, text_piece |-> Get(part.text), capture |-> FALSE]
    ELSE [raises |-> FALSE, text_piece |-> Null, capture |-> FALSE]

\* Mutant of ShapeMatch: the text is selected as in the code, and no part
\* is ever recorded as final_usage_data.
ShapeMatch_NoCapture(part) ==
    IF part.t # "obj"
    THEN [raises |-> FALSE, text_piece |-> Null, capture |-> FALSE]
    ELSE IF part.text.t # "absent"
    THEN [raises |-> FALSE, text_piece |-> Get(part.text), capture |-> FALSE]
    ELSE IF part.result.t = "dict"
    THEN IF part.result.message.t = "nondict"
         THEN [raises |-> TRUE, text_piece |-> Null, capture |-> FALSE]
         ELSE [raises |-> FALSE,
               text_piece |-> Get(part.result.message.content),
               capture |-> FALSE]
    ELSE [raises |-> FALSE, text_piece |-> Null, capture |-> FALSE]

\* The shape matching of the loop body on a parsed part: the text piece it
\* selects, whether it records the part as final_usage_data, and whether
\* it raises (caught by "except Exception: continue").
ShapeMatch(part) ==
    IF part.t # "obj"
    THEN [raises |-> FALSE, text_piece |-> Null, capture |-> FALSE]
    ELSE IF part.type = "text" /\ part.text.t # "absent"
    THEN [raises |-> FALSE, text_piece |-> Get(part.text), capture |-> FALSE]
    ELSE IF part.text.t # "absent"
    THEN [raises |-> FALSE, text_piece |-> Get(part.text), capture |-> FALSE]
    ELSE IF part.result.t = "dict"
    THEN IF part.result.message.t = "nondict"
         THEN [raises |-> TRUE, text_piece |-> Null, capture |-> FALSE]
         ELSE [raises |-> FALSE,
               text_piece |-> Get(part.result.message.content),
               capture |-> UsageTruthy(part.result.usage)]
    ELSE [raises |-> FALSE, text_piece |-> Null, capture |-> FALSE]

\* The outcome of an iteration that ends in "continue": nothing is yielded.
NoDelta == [emit |-> FALSE, text |-> "", capture |-> FALSE]

\* Mutant of ProcessLine: a line that is not JSON is skipped instead of
\* being forwarded as text.
ProcessLine_DropNonJson(l) ==
    IF l = <<>> THEN [emit |-> FALSE, text |-> "", capture |-> FALSE]
    ELSE LET s == StripDataPrefix(l)
         IN  IF s = <<>> \/ ~IsJson(s)
             THEN [emit |-> FALSE, text |-> "", capture |-> FALSE]
             ELSE LET m == ShapeMatch(s[1].part)
                  IN  IF m.raises THEN [emit |-> FALSE, text |-> "", capture |-> FALSE]
                      ELSE IF Truthy(m.text_piece) /\ m.text_piece.t = "str"
                      THEN [emit |-> TRUE, text |-> m.text_piece.s, capture |-> m.capture]
                      ELSE [emit |-> FALSE, text |-> "", capture |-> m.capture]

\* One iteration of "for line in r.iter_lines()": whether a content delta
\* is yielded, its text, and whether final_usage_data becomes the part.
ProcessLine(l) ==
    IF l = <<>> THEN NoDelta
    ELSE LET s == StripDataPrefix(l)
         IN  IF s = <<>> THEN NoDelta
             ELSE IF IsJson(s)
             THEN LET m == ShapeMatch(s[1].part)
                  IN  IF m.raises THEN NoDelta
                      ELSE IF Truthy(m.text_piece) /\ m.text_piece.t = "str"
                      THEN [emit |-> TRUE, text |-> m.text_piece.s, capture |-> m.capture]
                      ELSE [emit |-> FALSE, text |-> "", capture |-> m.capture]
             ELSE [emit |-> TRUE, text |-> SrcText(s), capture |-> FALSE]

\* ------------------------------------------------------ the request body
\* An optional scalar of the body (temperature, max_tokens): the key is
\* "absent", its value is "null", or it is the number v.
NoVal == [t |-> "absent", v |-> 0]
NullVal == [t |-> "null", v |-> 0]
NumVal(k) == [t |-> "num", v |-> k]

\* One element of a list-valued content: a text part, an image part (an
\* object with an image_url key) or an element that is not an object; src
\* is its json.dumps text.
TextPart(x) == [k |-> "text", src |-> x]
ImagePart(x) == [k |-> "image_url", src |-> x]
BarePart(x) == [k |-> "nondict", src |-> x]

\* A content that is a list of parts.
ListContent(ps) == [t |-> "list", s |-> "", parts |-> ps]

\* One message object: role and content are "absent" when the key is missing.
Msg(role, content) == [role |-> role, content |-> content]

\* The messages and tools members of the body: "absent", "null", "list"
\* (items) or "other" (a truthy value that is not a list).
ListAbsent == [t |-> "absent", items |-> <<>>]
ListNull == [t |-> "null", items |-> <<>>]
ListOf(xs) == [t |-> "list", items |-> xs]
ListOther == [t |-> "other", items |-> <<>>]

\* The model member of the body: a string given as its pieces, with the
\* character ":" a piece of its own; t is "absent" when the key is missing.
NoModel == [t |-> "absent", id |-> <<>>]
Model(id) == [t |-> "str", id |-> id]

\* A request body with the members chat_completions reads (and vision,
\* which it never reads).
Body(model, st, msgs, prompt, input, temp, maxtok, tools, vision) ==
    [model |-> model, stream |-> st, messages |-> msgs, prompt |-> prompt,
     input |-> input, temperature |-> temp, max_tokens |-> maxtok, tools |-> tools,
     vision |-> vision]

\* ----------------------------------------------------- normalize_messages
\* "not messages"
NoMessages(m) == m.t \in {"absent", "null"} \/ (m.t = "list" /\ m.items = <<>>)

\* body.get("prompt") or body.get("input")
PromptOrInput(body) == IF Truthy(body.prompt) THEN body.prompt ELSE Get(body.input)

\* Mutant of normalize_messages: a content that is a list of parts is
\* replaced by the empty text.
normalize_messages_TextOnly(body) ==
    LET prompt == PromptOrInput(body)
        messages == IF NoMessages(body.messages) /\ prompt.t = "str" /\ prompt.s # ""
                    THEN ListOf(<<Msg(Str("user"), prompt)>>)
                    ELSE body.messages
        items == IF messages.t = "list" THEN messages.items ELSE <<>>
    IN  [i \in 1..Len(items) |->
            Msg(IF items[i].role.t = "absent" THEN Str("user") ELSE items[i].role,
                IF items[i].content.t \in {"absent", "list"} THEN Str("")
                ELSE items[i].content)]

\* Mutant of normalize_messages: a usable prompt is appended as one more
\* user message even when the body has messages.
normalize_messages_AppendPrompt(body) ==
    LET prompt == PromptOrInput(body)
        extra == IF prompt.t = "str" /\ prompt.s # ""
                 THEN <<Msg(Str("user"), prompt)>> ELSE <<>>
        items == IF body.messages.t = "list" THEN body.messages.items ELSE <<>>
    IN  [i \in 1..Len(items) |->
            Msg(IF items[i].role.t = "absent" THEN Str("user") ELSE items[i].role,
                IF items[i].content.t = "absent" THEN Str("") ELSE items[i].content)]
        \o extra

\* normalize_messages(body): the list it returns.
normalize_messages(body) ==
    LET prompt == PromptOrInput(body)
        messages == IF NoMessages(body.messages) /\ prompt.t = "str" /\ prompt.s # ""
                    THEN ListOf(<<Msg(Str("user"), prompt)>>)
                    ELSE body.messages
        items == IF messages.t = "list" THEN messages.items ELSE <<>>
    IN  [i \in 1..Len(items) |->
            Msg(IF items[i].role.t = "absent" THEN Str("user") ELSE items[i].role,
                IF items[i].content.t = "absent" THEN Str("") ELSE items[i].content)]

\* ------------------------------------------- chat_completions: the payload
\* The models for which a supplied temperature is dropped.
NoTemperatureModels == {<<"o3-mini">>, <<"o3">>, <<"o4-mini">>}

\* body.get("model", "gpt-4.1-nano")
ModelOf(body) == IF body.model.t = "absent" THEN <<"gpt-4.1-nano">> ELSE body.model.id

\* Mutant of TemperatureOf: the allow-list is not consulted.
TemperatureOf_KeepAlways(body) ==
    IF body.temperature.t = "absent" THEN NullVal ELSE body.temperature

\* The local temperature after the allow-list test: None when the key is
\* missing or the model rejects a temperature.
TemperatureOf(body) ==
    IF body.temperature.t = "absent" THEN NullVal
    ELSE IF ModelOf(body) \in NoTemperatureModels /\ body.temperature.t # "null"
    THEN NullVal
    ELSE body.temperature

\* The vision detection loop over the normalized messages.
has_vision(messages) ==
    \E i \in 1..Len(messages) :
        /\ messages[i].content.t = "list"
        /\ \E j \in 1..Len(messages[i].content.parts) :
               messages[i].content.parts[j].k = "image_url"

\* An optional member of args: present with value v, or missing.
Missing == [present |-> FALSE, v |-> 0]
Present(x) == [present |-> TRUE, v |-> x]

\* Mutant of BuildArgs: max_tokens is defaulted to 0 when not supplied.
BuildArgs_DefaultMaxTokens(body, messages) ==
    [messages |-> messages,
     model |-> ModelOf(body),
     max_tokens |-> IF body.max_tokens.t = "num" THEN Present(body.max_tokens.v)
                    ELSE Present(0),
     temperature |-> IF TemperatureOf(body).t = "num"
                     THEN Present(TemperatureOf(body).v) ELSE Missing,
     tools |-> IF body.tools.t = "list" /\ body.tools.items # <<>>
               THEN [present |-> TRUE, v |-> body.tools.items]
               ELSE [present |-> FALSE, v |-> <<>>],
     vision |-> has_vision(messages),
     stream |-> FALSE]

\* Mutant of BuildArgs: the vision flag is copied from the body.
BuildArgs_VisionFromBody(body, messages) ==
    [messages |-> messages,
     model |-> ModelOf(body),
     max_tokens |-> IF body.max_tokens.t = "num" THEN Present(body.max_tokens.v)
                    ELSE Missing,
     temperature |-> IF TemperatureOf(body).t = "num"
                     THEN Present(TemperatureOf(body).v) ELSE Missing,
     tools |-> IF body.tools.t = "list" /\ body.tools.items # <<>>
               THEN [present |-> TRUE, v |-> body.tools.items]
               ELSE [present |-> FALSE, v |-> <<>>],
     vision |-> body.vision,
     stream |-> FALSE]

\* args = {"messages": messages, "model": model} plus the optional members;
\* vision and stream are TRUE when the key is in args (its value is True).
BuildArgs(body, messages) ==
    [messages |-> messages,
     model |-> ModelOf(body),
     max_tokens |-> IF body.max_tokens.t = "num" THEN Present(body.max_tokens.v)
                    ELSE Missing,
     temperature |-> IF TemperatureOf(body).t = "num"
                     THEN Present(TemperatureOf(body).v) ELSE Missing,
     tools |-> IF body.tools.t = "list" /\ body.tools.items # <<>>
               THEN [present |-> TRUE, v |-> body.tools.items]
               ELSE [present |-> FALSE, v |-> <<>>],
     vision |-> has_vision(messages),
     stream |-> FALSE]

\* ":" in model
HasColon(id) == \E i \in 1..Len(id) : id[i] = ":"

\* model.split(":")[0]
RECURSIVE BeforeColon(_)
BeforeColon(id) ==
    IF id = <<>> \/ Head(id) = ":" THEN "" ELSE Head(id) \o BeforeColon(Tail(id))

\* The text after the last ":", as the mutant of DriverOf takes it.
RECURSIVE AfterLastColon(_)
AfterLastColon(id) ==
    IF id = <<>> \/ id[Len(id)] = ":" THEN ""
    ELSE AfterLastColon(SubSeq(id, 1, Len(id) - 1)) \o id[Len(id)]

\* Mutant of DriverOf: the piece after the last ":" names the driver.
DriverOf_LastPiece(id) == IF HasColon(id) THEN AfterLastColon(id) ELSE "openai-completion"

\* payload["driver"]
DriverOf(id) == IF HasColon(id) THEN BeforeColon(id) ELSE "openai-completion"

\* The payload of the upstream call.
BuildPayload(body, messages) ==
    [interface |-> "puter-chat-completion",
     driver |-> DriverOf(ModelOf(body)),
     method |-> "complete",
     args |-> BuildArgs(body, messages),
     test_mode |-> FALSE]

\* The payload variable before the handler has built one.
NoPayload == BuildPayload(Body(NoModel, FALSE, ListAbsent, Absent, Absent, NoVal, NoVal,
                               ListAbsent, FALSE), <<>>)

\* args_with_stream / payload_stream of generate()
PayloadStream(pl) == [pl EXCEPT !.args.stream = TRUE]

\* The texts joined into user_text_concat for one message.
TextsOf(m) ==
    IF m.content.t = "list"
    THEN [j \in 1..Len(m.content.parts) |-> m.content.parts[j].src]
    ELSE <<IF m.content.t = "null" THEN "null" ELSE m.content.s>>

RECURSIVE Flatten(_)
Flatten(ms) == IF ms = <<>> THEN <<>> ELSE TextsOf(Head(ms)) \o Flatten(Tail(ms))

RECURSIVE Join(_)
Join(ts) ==
    IF ts = <<>> THEN ""
    ELSE IF Len(ts) = 1 THEN ts[1]
    ELSE ts[1] \o "\n" \o Join(Tail(ts))

\* user_text_concat
UserTextConcat(messages) == Join(Flatten(messages))

\* ------------------------------------------------ get_effective_api_key
\* The Authorization header: bearer tells whether it starts with "Bearer ",
\* token is the rest of it as a token sequence.
AuthHeader(b, tok) == [bearer |-> b, token |-> tok]
NoAuthHeader == AuthHeader(FALSE, <<>>)

\* Mutant of get_effective_api_key: a header key of exactly 8 characters is
\* accepted ("len(request_api_key) >= 8").
get_effective_api_key_AtLeast8(header, env) ==
    LET request_api_key == SrcText(strip(header.token))
    IN  IF header.bearer /\ Len(request_api_key) >= 8 THEN request_api_key
        ELSE env

\* get_effective_api_key(): the key, "" when there is none.
get_effective_api_key(header, env) ==
    LET request_api_key == SrcText(strip(header.token))
    IN  IF header.bearer /\ Len(request_api_key) > 8 THEN request_api_key
        ELSE env

\* Mutant of get_puter_headers: the Authorization entry is written into the
\* module-level table itself instead of into a copy.
get_puter_headers_WritesTemplate(key) ==
    LET written == ("Authorization" :> ("Bearer " \o key)) @@ PUTER_HEADERS_TEMPLATE
    IN  [headers |-> written, template |-> written]

\* get_puter_headers(api_key), always called with a key by chat_completions:
\* a copy of the module-level table with the Authorization entry set (the
\* left operand of @@ wins, as the assignment after .copy() does).  The
\* result names the dict returned and the table as the call leaves it.
get_puter_headers(key) ==
    [headers  |-> ("Authorization" :> ("Bearer " \o key)) @@ PUTER_HEADERS_TEMPLATE,
     template |-> PUTER_HEADERS_TEMPLATE]

\* ------------------------------------------------------ upstream inputs
\* {"type":"text","text":t}
TextEnvelope(t) == Obj("text", Str(t), FALSE, NoResult)

UsageBoth == UsageList(<<UsageItem("prompt", AmtInt(7)), UsageItem("completion", AmtInt(2))>>)
UsageZero == UsageList(<<UsageItem("prompt", AmtInt(0)), UsageItem("completion", AmtInt(4))>>)
UsagePromptOnly == UsageList(<<UsageItem("other", AmtInt(1)), UsageItem("prompt", AmtInt(9)),
                               UsageItem("completion", AmtNull)>>)
UsageBadAmount == UsageList(<<UsageItem("prompt", AmtStr("x"))>>)

L_blank == <<>>
L_dataonly == <<DATA, WS>>
L_hel == <<DATA, WS, Json("{Hel}", TextEnvelope("Hel"))>>
L_lo == <<Json("{lo}", TextEnvelope("lo"))>>
L_emptytext == <<Json("{}", TextEnvelope(""))>>
L_numtext == <<Json("{5}", Obj("text", Num("5"), FALSE, NoResult))>>
L_bare == <<Json("{!}", Obj("absent", Str("!"), FALSE, Result(NoMessage, UsageBoth)))>>
L_final == <<DATA, Json("{F}", Obj("absent", Absent, TRUE, Result(Message(Str("Hello")), UsageBoth)))>>
L_usage == <<Json("{U}", Obj("absent", Absent, TRUE, Result(NoMessage, UsageZero)))>>
L_usage_prompt == <<Json("{P}", Obj("absent", Absent, TRUE, Result(Message(Null), UsagePromptOnly)))>>
L_usage_bad == <<Json("{B}", Obj("absent", Absent, TRUE, Result(NoMessage, UsageBadAmount)))>>
L_garbage == <<WS, DATA, WS, Txt("oops"), WS>>
L_scalar == <<Json("42", Scalar)>>
L_badmsg == <<Json("{M}", Obj("absent", Absent, TRUE, Result(BadMessage, UsageBoth)))>>
L_multi == <<Json("{X}", Obj("text", Str("top"), TRUE, Result(Message(Str("nested")), UsageBoth)))>>

\* The lines an upstream stream can deliver.
Lines == {L_blank, L_dataonly, L_hel, L_lo, L_emptytext, L_numtext, L_bare, L_final,
          L_usage, L_usage_prompt, L_usage_bad, L_garbage, L_scalar, L_badmsg, L_multi}

\* A response of a non-streaming upstream call: ok is resp.ok, text is
\* resp.text, isjson tells whether resp.json() parses, data is its value.
Resp(ok, text, isjson, data) == [ok |-> ok, text |-> text, isjson |-> isjson, data |-> data]
NoResp == Resp(FALSE, "", FALSE, Scalar)

Answer(c, u) == Obj("absent", Absent, TRUE, Result(Message(c), u))

R_ok == Resp(TRUE, "{ok}", TRUE, Answer(Str("fallback text"), UsageBoth))
R_ok_nousage == Resp(TRUE, "{ok}", TRUE, Answer(Str("fallback text"), NoUsageField))
R_ok_partial == Resp(TRUE, "{ok}", TRUE, Answer(Str("Hi"), UsagePromptOnly))
R_ok_empty == Resp(TRUE, "{ok}", TRUE, Answer(Str(""), UsageZero))
R_ok_nomsg == Resp(TRUE, "{ok}", TRUE, Obj("absent", Absent, TRUE, NoResult))
R_ok_badusage == Resp(TRUE, "{ok}", TRUE, Answer(Str("Hi"), UsageBadAmount))
R_ok_num == Resp(TRUE, "{ok}", TRUE, Answer(Num("5"), NoUsageField))
R_fail == Resp(TRUE, "{fail}", TRUE, Obj("absent", Absent, FALSE, NoResult))
R_html == Resp(TRUE, "<html>", FALSE, Scalar)
R_scalar == Resp(TRUE, "[]", TRUE, Scalar)
R_badresult == Resp(TRUE, "{ok}", TRUE, Obj("absent", Absent, TRUE, BadResult))
R_badmsg == Resp(TRUE, "{ok}", TRUE, Obj("absent", Absent, TRUE, Result(BadMessage, UsageBoth)))
R_500 == Resp(FALSE, "oops", FALSE, Scalar)
R_ok_strusage ==
    Resp(TRUE, "{ok}", TRUE,
         Answer(Str("Hi"), UsageList(<<UsageItem("prompt", AmtStr("7")),
                                       UsageItem("completion", AmtStr("2"))>>)))

\* The responses a non-streaming upstream call can return.
Responses == {R_ok, R_ok_nousage, R_ok_partial, R_ok_empty, R_ok_nomsg, R_ok_badusage,
              R_ok_num, R_fail, R_html, R_scalar, R_badresult, R_badmsg, R_500,
              R_ok_strusage}

\* The concatenated input texts of the requests considered.
UserTexts == {"", "hello world"}

\* f"[proxy error] {str(e)}"
ProxyError == "[proxy error] e"

\* ---------------------------------------------------------------- frames
NoUsageKey == Raised

\* "data: {json}\n\n" of a chunk with the given delta.
Chunk(delta, content, fr, has, u) ==
    [data |-> "chunk", delta |-> delta, content |-> content, finish_reason |-> fr,
     has_usage |-> has, usage |-> u]

first_delta == Chunk("role", Absent, "null", FALSE, NoUsageKey)
content_chunk(c) == Chunk("content", c, "null", FALSE, NoUsageKey)
fallback_chunk(c) == Chunk("content", c, "stop", FALSE, NoUsageKey)
err_chunk(c) == Chunk("content", c, "null", FALSE, NoUsageKey)
final_chunk(u) == Chunk("empty", Absent, "stop", TRUE, u)

\* "data: [DONE]\n\n"
DONE == [data |-> "DONE", delta |-> "none", content |-> Absent, finish_reason |-> "none",
         has_usage |-> FALSE, usage |-> NoUsageKey]

\* Mutant of Call: the stream flag set for the streaming attempt is set in
\* the payload of every call.
Call_KeepsStreamFlag(st) ==
    [args_stream |-> st, payload |-> PayloadStream(payload), headers |-> headers]

\* One upstream call: whether its args carry stream=true, the payload sent
\* (payload_stream for the streaming attempt, payload otherwise) and the
\* headers it is sent with.
Call(st) ==
    [args_stream |-> st, payload |-> IF st THEN PayloadStream(payload) ELSE payload,
     headers |-> headers]

\* What a non-streaming request returns: kind is "none" (nothing yet),
\* "error" (an error envelope), "completion" or "crash" (unhandled exception).
Reply(status, kind, details, content, u) ==
    [status |-> status, kind |-> kind, details |-> details, content |-> content, usage |-> u]
NoReply == Reply(0, "none", FALSE, Absent, NoUsageKey)

\* ------------------------------------------------------------------ Init
\* The requests of the relay specification: one user message with each of
\* the input texts, in both modes, and a body without messages.
SimpleBody(st, text) ==
    Body(Model(<<"gpt-4o">>), st, ListOf(<<Msg(Str("user"), Str(text))>>), Absent, Absent,
         NoVal, NoVal, ListAbsent, FALSE)
EmptyBody == Body(NoModel, FALSE, ListAbsent, Absent, Absent, NoVal, NoVal, ListAbsent, FALSE)
BaseBodies == {SimpleBody(st, text) : st \in BOOLEAN, text \in UserTexts} \cup {EmptyBody}

\* "Bearer sk-123456789" and no Authorization header.
BaseAuths == {AuthHeader(TRUE, <<Txt("sk-123456789")>>), NoAuthHeader}

\* The state in which a request has arrived at a process whose module-level
\* header table is as loaded, and the handler has not run.
Arrived ==
    /\ pc = "recv"
    /\ PUTER_HEADERS_TEMPLATE =
           ("Accept" :> "*/*") @@ ("Content-Type" :> "application/json;charset=UTF-8")
           @@ ("Origin" :> "https://docs.puter.com") @@ ("Referer" :> "https://docs.puter.com/")
           @@ ("User-Agent" :> "Mozilla/5.0 (X11; Linux x86_64) AppleWebKit/537.36 (KHTML, like Gecko) Chrome/124.0.0.0 Safari/537.36")
    /\ stream = FALSE
    /\ user_text = ""
    /\ api_key = ""
    /\ req_messages = <<>>
    /\ payload = NoPayload
    /\ headers = <<>>
    /\ frames = <<>>
    /\ accumulated_content = Str("")
    /\ final_usage_data = None
    /\ consumed = <<>>
    /\ r_status = 0
    /\ exc = "none"
    /\ conn = "none"
    /\ non_stream_resp = NoResp
    /\ calls = <<>>
    /\ response = NoReply

Init ==
    /\ req_body \in BaseBodies
    /\ auth_header \in BaseAuths
    /\ API_TOKEN = ""
    /\ tiktoken \in BOOLEAN
    /\ peer = <<>>
    /\ cur = 1
    /\ Arrived

\* ------------------------------------- chat_completions: before the call
\* No usable key: 401 with an error envelope, before anything else is read.
RejectNoKey ==
    /\ pc = "recv"
    /\ get_effective_api_key(auth_header, API_TOKEN) = ""
    /\ response' = Reply(401, "error", FALSE, Absent, NoUsageKey)
    /\ pc' = "rejected"
    /\ UNCHANGED <<stream, user_text, tiktoken, frames, accumulated_content,
                   final_usage_data, consumed, r_status, exc, conn, non_stream_resp, calls,
                   req_body, auth_header, API_TOKEN, api_key, req_messages, payload,
                   headers, procvars>>

\* Mutant of RejectNoMessages: the empty message list is not checked and
\* the request goes on to the upstream call.
RejectNoMessages_Forwards ==
    /\ pc = "recv"
    /\ get_effective_api_key(auth_header, API_TOKEN) # ""
    /\ normalize_messages(req_body) = <<>>
    /\ api_key' = get_effective_api_key(auth_header, API_TOKEN)
    /\ stream' = req_body.stream
    /\ req_messages' = normalize_messages(req_body)
    /\ payload' = BuildPayload(req_body, normalize_messages(req_body))
    /\ headers' = get_puter_headers(get_effective_api_key(auth_header, API_TOKEN)).headers
    /\ PUTER_HEADERS_TEMPLATE' =
           get_puter_headers(get_effective_api_key(auth_header, API_TOKEN)).template
    /\ pc' = "start"
    /\ UNCHANGED <<user_text, tiktoken, frames, accumulated_content, final_usage_data,
                   consumed, r_status, exc, conn, non_stream_resp, calls, response,
                   req_body, auth_header, API_TOKEN, peer, cur>>

\* The normalized messages are empty: 400 with an error envelope.  The
\* locals of the handler are dropped with the return.
RejectNoMessages ==
    /\ pc = "recv"
    /\ get_effective_api_key(auth_header, API_TOKEN) # ""
    /\ normalize_messages(req_body) = <<>>
    /\ api_key' = get_effective_api_key(auth_header, API_TOKEN)
    /\ req_messages' = normalize_messages(req_body)
    /\ headers' = get_puter_headers(get_effective_api_key(auth_header, API_TOKEN)).headers
    /\ PUTER_HEADERS_TEMPLATE' =
           get_puter_headers(get_effective_api_key(auth_header, API_TOKEN)).template
    /\ response' = Reply(400, "error", FALSE, Absent, NoUsageKey)
    /\ pc' = "rejected"
    /\ UNCHANGED <<stream, user_text, tiktoken, frames, accumulated_content,
                   final_usage_data, consumed, r_status, exc, conn, non_stream_resp, calls,
                   req_body, auth_header, API_TOKEN, payload, peer, cur>>

\* The request passes validation: the handler has built args, payload and
\* user_text_concat and stands before the upstream call.
AcceptRequest ==
    /\ pc = "recv"
    /\ get_effective_api_key(auth_header, API_TOKEN) # ""
    /\ normalize_messages(req_body) # <<>>
    /\ api_key' = get_effective_api_key(auth_header, API_TOKEN)
    /\ stream' = req_body.stream
    /\ req_messages' = normalize_messages(req_body)
    /\ payload' = BuildPayload(req_body, normalize_messages(req_body))
    /\ user_text' = UserTextConcat(normalize_messages(req_body))
    /\ headers' = get_puter_headers(get_effective_api_key(auth_header, API_TOKEN)).headers
    /\ PUTER_HEADERS_TEMPLATE' =
           get_puter_headers(get_effective_api_key(auth_header, API_TOKEN)).template
    /\ pc' = "start"
    /\ UNCHANGED <<tiktoken, frames, accumulated_content, final_usage_data, consumed,
                   r_status, exc, conn, non_stream_resp, calls, response, req_body,
                   auth_header, API_TOKEN, peer, cur>>

\* ------------------------------------------------ generate(): helpers
\* The except Exception block of generate(), entered with exception e
\* ("conn" for a connection-level failure of requests, "value" for an error
\* raised while reading the fallback body): the diagnostic replaces
\* accumulated_content and is yielded as one content chunk.
ExceptBlock(e) ==
    /\ exc' = e
    /\ accumulated_content' = Str(ProxyError)
    /\ frames' = Append(frames, err_chunk(Str(ProxyError)))
    /\ pc' = "y_err"

\* Mutant of FinallyBlock: the captured final_usage_data is ignored and the
\* usage is always computed from the empty dict.
FinallyBlock_EstimateOnly(fr) ==
    \E u \in extract_usage_from_puter_response(EmptyDict, Str(user_text),
                                                accumulated_content') :
        IF u.ok
        THEN frames' = Append(fr, final_chunk(u)) /\ pc' = "y_final"
        ELSE frames' = fr /\ pc' = "crashed"

\* The finally block of generate() up to its first yield, entered with the
\* frames fr emitted so far: the usage is computed and the final chunk is
\* yielded, unless the computation raises.
FinallyBlock(fr) ==
    \E u \in extract_usage_from_puter_response(
                 IF final_usage_data'.t # "none" THEN final_usage_data' ELSE EmptyDict,
                 Str(user_text), accumulated_content') :
        IF u.ok
        THEN frames' = Append(fr, final_chunk(u)) /\ pc' = "y_final"
        ELSE frames' = fr /\ pc' = "crashed"

\* Mutant of FallbackText: a body with a false success flag gives no text
\* (the raw body is not forwarded).
FallbackText_DropsRawBody(resp) ==
    IF ~resp.ok
    THEN [raises |-> FALSE, text_out |-> Str(""), capture |-> FALSE]
    ELSE IF ~resp.isjson \/ resp.data.t # "obj"
    THEN [raises |-> TRUE, text_out |-> Str(""), capture |-> FALSE]
    ELSE IF resp.data.success
    THEN IF resp.data.result.t = "nondict" \/ resp.data.result.message.t = "nondict"
         THEN [raises |-> TRUE, text_out |-> Str(""), capture |-> FALSE]
         ELSE [raises |-> FALSE,
               text_out |-> IF resp.data.result.message.content.t = "absent"
                            THEN Str("") ELSE resp.data.result.message.content,
               capture |-> TRUE]
    ELSE [raises |-> FALSE, text_out |-> Str(""), capture |-> FALSE]

\* The fallback branch from the response to text_out: the text, whether the
\* response becomes final_usage_data, and whether an exception is raised.
FallbackText(resp) ==
    IF ~resp.ok
    THEN [raises |-> FALSE, text_out |-> Str(""), capture |-> FALSE]
    ELSE IF ~resp.isjson \/ resp.data.t # "obj"
    THEN [raises |-> TRUE, text_out |-> Str(""), capture |-> FALSE]
    ELSE IF resp.data.success
    THEN IF resp.data.result.t = "nondict" \/ resp.data.result.message.t = "nondict"
         THEN [raises |-> TRUE, text_out |-> Str(""), capture |-> FALSE]
         ELSE [raises |-> FALSE,
               text_out |-> IF resp.data.result.message.content.t = "absent"
                            THEN Str("") ELSE resp.data.result.message.content,
               capture |-> TRUE]
    ELSE [raises |-> FALSE, text_out |-> Str(resp.text), capture |-> FALSE]

\* ------------------------------------------------ generate(): the steps
\* Mutant of EmitRole: the generator starts without yielding the role chunk.
EmitRole_NoRoleChunk ==
    /\ pc = "start" /\ stream
    /\ pc' = "y_role"
    /\ UNCHANGED <<exc, procvars, reqvars, stream, user_text, tiktoken, frames, accumulated_content,
                   final_usage_data, consumed, r_status, conn, non_stream_resp, calls,
                   response>>

\* The first pull: the role chunk is yielded before anything else happens.
EmitRole ==
    /\ pc = "start" /\ stream
    /\ frames' = Append(frames, first_delta)
    /\ pc' = "y_role"
    /\ UNCHANGED <<exc, procvars, reqvars, stream, user_text, tiktoken, accumulated_content, final_usage_data,
                   consumed, r_status, conn, non_stream_resp, calls, response>>

\* Mutant of StreamCallRaises: a streaming call that raises leads to the
\* fallback branch.
StreamCallRaises_FallsBack ==
    /\ pc = "y_role"
    /\ calls' = Append(calls, Call(TRUE))
    /\ pc' = "fallback"
    /\ UNCHANGED <<exc, procvars, reqvars, stream, user_text, tiktoken, frames, accumulated_content,
                   final_usage_data, consumed, r_status, conn, non_stream_resp, response>>

\* requests.post(..., json=payload_stream, stream=True) raises.
StreamCallRaises ==
    /\ pc = "y_role"
    /\ calls' = Append(calls, Call(TRUE))
    /\ ExceptBlock("conn")
    /\ UNCHANGED <<procvars, reqvars, stream, user_text, tiktoken, final_usage_data, consumed, r_status,
                   conn, non_stream_resp, response>>

\* The streaming call answers 200: the loop over r.iter_lines() starts.
StreamCallOk ==
    /\ pc = "y_role"
    /\ calls' = Append(calls, Call(TRUE))
    /\ r_status' = 200
    /\ conn' = "open"
    /\ pc' = "loop"
    /\ UNCHANGED <<exc, procvars, reqvars, stream, user_text, tiktoken, frames, accumulated_content,
                   final_usage_data, consumed, non_stream_resp, response>>

\* The streaming call answers another status: the fallback branch is taken.
StreamCallRefused ==
    /\ pc = "y_role"
    /\ calls' = Append(calls, Call(TRUE))
    /\ r_status' = 500
    /\ conn' = "open"
    /\ pc' = "fallback"
    /\ UNCHANGED <<exc, procvars, reqvars, stream, user_text, tiktoken, frames, accumulated_content,
                   final_usage_data, consumed, non_stream_resp, response>>

\* Mutant of FallbackRaises: a failed fallback call is tried again.
FallbackRaises_Retry ==
    /\ pc = "fallback"
    /\ calls' = Append(calls, Call(FALSE))
    /\ pc' = "fallback"
    /\ UNCHANGED <<exc, procvars, reqvars, stream, user_text, tiktoken, frames, accumulated_content,
                   final_usage_data, consumed, r_status, conn, non_stream_resp, response>>

\* The fallback requests.post(..., json=payload) raises: the with block is
\* left and the except block runs.
FallbackRaises ==
    /\ pc = "fallback"
    /\ calls' = Append(calls, Call(FALSE))
    /\ conn' = "closed"
    /\ ExceptBlock("conn")
    /\ UNCHANGED <<procvars, reqvars, stream, user_text, tiktoken, final_usage_data, consumed, r_status,
                   non_stream_resp, response>>

\* The fallback call returns a response: up to the next yield.
FallbackReturns ==
    /\ pc = "fallback"
    /\ calls' = Append(calls, Call(FALSE))
    /\ \E resp \in Responses :
        LET f == FallbackText(resp)
        IN  /\ non_stream_resp' = resp
            /\ IF f.raises
               THEN /\ conn' = "closed"
                    /\ ExceptBlock("value")
                    /\ UNCHANGED final_usage_data
               ELSE /\ UNCHANGED exc
                    /\ final_usage_data' = IF f.capture THEN resp.data ELSE final_usage_data
                    /\ UNCHANGED conn
                    /\ IF Truthy(f.text_out)
                       THEN /\ accumulated_content' = f.text_out
                            /\ frames' = Append(frames, fallback_chunk(f.text_out))
                            /\ pc' = "y_fb_chunk"
                       ELSE /\ UNCHANGED accumulated_content
                            /\ frames' = Append(frames, DONE)
                            /\ pc' = "y_fb_done"
    /\ UNCHANGED <<procvars, reqvars, stream, user_text, tiktoken, consumed, r_status, response>>

\* After the fallback chunk: yield "data: [DONE]\n\n".
FallbackDone ==
    /\ pc = "y_fb_chunk"
    /\ frames' = Append(frames, DONE)
    /\ pc' = "y_fb_done"
    /\ UNCHANGED <<exc, procvars, reqvars, stream, user_text, tiktoken, accumulated_content, final_usage_data,
                   consumed, r_status, conn, non_stream_resp, calls, response>>

\* The return of the fallback branch: the with block is left and the
\* finally block runs.
FallbackReturn ==
    /\ pc = "y_fb_done"
    /\ conn' = "closed"
    /\ UNCHANGED <<accumulated_content, final_usage_data>>
    /\ FinallyBlock(frames)
    /\ UNCHANGED <<exc, procvars, reqvars, stream, user_text, tiktoken, consumed, r_status, non_stream_resp,
                   calls, response>>

\* Mutant of ReadLine: the chunk of a line that gives text is yielded twice.
ReadLine_YieldsTwice ==
    /\ pc \in {"loop", "y_delta"}
    /\ Len(consumed) < MaxLines
    /\ \E l \in Lines :
        LET o == ProcessLine(l)
        IN  /\ consumed' = Append(consumed, l)
            /\ final_usage_data' = IF o.capture THEN StripDataPrefix(l)[1].part
                                   ELSE final_usage_data
            /\ IF o.emit
               THEN /\ accumulated_content' = Str(accumulated_content.s \o o.text)
                    /\ frames' = frames \o <<content_chunk(Str(o.text)),
                                              content_chunk(Str(o.text))>>
                    /\ pc' = "y_delta"
               ELSE /\ UNCHANGED <<accumulated_content, frames>>
                    /\ pc' = "loop"
    /\ UNCHANGED <<exc, procvars, reqvars, stream, user_text, tiktoken, r_status, conn, non_stream_resp, calls,
                   response>>

\* Mutant of ReadLine: the delta of a line is held back and the next line
\* is read without yielding.
ReadLine_Buffered ==
    /\ pc \in {"loop", "y_delta"}
    /\ Len(consumed) < MaxLines
    /\ \E l \in Lines :
        LET o == ProcessLine(l)
        IN  /\ consumed' = Append(consumed, l)
            /\ final_usage_data' = IF o.capture THEN StripDataPrefix(l)[1].part
                                   ELSE final_usage_data
            /\ accumulated_content' = IF o.emit THEN Str(accumulated_content.s \o o.text)
                                      ELSE accumulated_content
            /\ UNCHANGED frames
            /\ pc' = "loop"
    /\ UNCHANGED <<exc, procvars, reqvars, stream, user_text, tiktoken, r_status, conn, non_stream_resp, calls,
                   response>>

\* r.iter_lines() delivers a line and the loop body runs on it.
ReadLine ==
    /\ pc \in {"loop", "y_delta"}
    /\ Len(consumed) < MaxLines
    /\ \E l \in Lines :
        LET o == ProcessLine(l)
        IN  /\ consumed' = Append(consumed, l)
            /\ final_usage_data' = IF o.capture THEN StripDataPrefix(l)[1].part
                                   ELSE final_usage_data
            /\ IF o.emit
               THEN /\ accumulated_content' = Str(accumulated_content.s \o o.text)
                    /\ frames' = Append(frames, content_chunk(Str(o.text)))
                    /\ pc' = "y_delta"
               ELSE /\ UNCHANGED <<accumulated_content, frames>>
                    /\ pc' = "loop"
    /\ UNCHANGED <<exc, procvars, reqvars, stream, user_text, tiktoken, r_status, conn, non_stream_resp, calls,
                   response>>

\* r.iter_lines() is exhausted: the with block is left, the finally block runs.
StreamEnds ==
    /\ pc \in {"loop", "y_delta"}
    /\ conn' = "closed"
    /\ UNCHANGED <<accumulated_content, final_usage_data>>
    /\ FinallyBlock(frames)
    /\ UNCHANGED <<exc, procvars, reqvars, stream, user_text, tiktoken, consumed, r_status, non_stream_resp,
                   calls, response>>

\* r.iter_lines() raises a connection error: the except block runs.
StreamBreaks ==
    /\ pc \in {"loop", "y_delta"}
    /\ conn' = "closed"
    /\ ExceptBlock("conn")
    /\ UNCHANGED <<procvars, reqvars, stream, user_text, tiktoken, final_usage_data, consumed, r_status,
                   non_stream_resp, calls, response>>

\* After the error chunk the finally block runs.
AfterError ==
    /\ pc = "y_err"
    /\ UNCHANGED <<accumulated_content, final_usage_data>>
    /\ FinallyBlock(frames)
    /\ UNCHANGED <<exc, procvars, reqvars, stream, user_text, tiktoken, consumed, r_status, conn,
                   non_stream_resp, calls, response>>

\* After the final chunk: yield "data: [DONE]\n\n".
EmitDone ==
    /\ pc = "y_final"
    /\ frames' = Append(frames, DONE)
    /\ pc' = "y_done"
    /\ UNCHANGED <<exc, procvars, reqvars, stream, user_text, tiktoken, accumulated_content, final_usage_data,
                   consumed, r_status, conn, non_stream_resp, calls, response>>

\* The generator returns.
Finish ==
    /\ pc = "y_done"
    /\ pc' = "done"
    /\ UNCHANGED <<exc, procvars, reqvars, stream, user_text, tiktoken, frames, accumulated_content,
                   final_usage_data, consumed, r_status, conn, non_stream_resp, calls,
                   response>>

\* The positions at which the generator is suspended at a yield.
Yields == {"y_role", "y_fb_chunk", "y_fb_done", "y_delta", "y_err", "y_final", "y_done"}

\* Mutant of Cancel: closing the generator leaves the upstream response open.
Cancel_KeepsConnection ==
    /\ pc \in Yields
    /\ pc' = "cancelled"
    /\ UNCHANGED <<exc, procvars, reqvars, stream, user_text, tiktoken, frames, accumulated_content,
                   final_usage_data, consumed, r_status, non_stream_resp, calls,
                   response, conn>>

\* The caller disconnects: the generator is closed at the yield it is
\* suspended at, the with block releases r, and no further frame is
\* delivered.
Cancel ==
    /\ pc \in Yields
    /\ pc' = "cancelled"
    /\ conn' = IF conn = "open" THEN "closed" ELSE conn
    /\ UNCHANGED <<exc, procvars, reqvars, stream, user_text, tiktoken, frames, accumulated_content,
                   final_usage_data, consumed, r_status, non_stream_resp, calls,
                   response>>

\* ------------------------------------------------ the non-streaming path
\* An exception escapes chat_completions: no reply is built by the handler.
Crash == Reply(500, "crash", FALSE, Absent, NoUsageKey)

\* The reply computed from the upstream response of the non-streaming path.
NonStreamReplies(resp) ==
    IF ~resp.ok THEN {Reply(502, "error", TRUE, Absent, NoUsageKey)}
    ELSE IF ~resp.isjson \/ resp.data.t # "obj" THEN {Crash}
    ELSE IF ~resp.data.success THEN {Reply(502, "error", TRUE, Absent, NoUsageKey)}
    ELSE IF resp.data.result.t = "nondict" \/ resp.data.result.message.t = "nondict"
    THEN {Crash}
    ELSE LET content == resp.data.result.message.content
             assistant_text == IF Truthy(content) THEN content ELSE Str("")
         IN  IF assistant_text.t # "str" THEN {Crash}
             ELSE { IF u.ok THEN Reply(200, "completion", FALSE, assistant_text, u)
                    ELSE Crash :
                      u \in extract_usage_from_puter_response(resp.data, Str(user_text),
                                                              assistant_text) }

\* requests.post of the non-streaming path raises: 502 with a message only.
NonStreamRaises ==
    /\ pc = "start" /\ ~stream
    /\ calls' = Append(calls, Call(FALSE))
    /\ response' = Reply(502, "error", FALSE, Absent, NoUsageKey)
    /\ pc' = "done"
    /\ UNCHANGED <<exc, procvars, reqvars, stream, user_text, tiktoken, frames, accumulated_content,
                   final_usage_data, consumed, r_status, conn, non_stream_resp>>

\* requests.post of the non-streaming path returns a response.
NonStreamReturns ==
    /\ pc = "start" /\ ~stream
    /\ calls' = Append(calls, Call(FALSE))
    /\ \E resp \in Responses :
        /\ non_stream_resp' = resp
        /\ \E rep \in NonStreamReplies(resp) :
            /\ response' = rep
            /\ pc' = IF rep.kind = "crash" THEN "crashed" ELSE "done"
    /\ UNCHANGED <<exc, procvars, reqvars, stream, user_text, tiktoken, frames, accumulated_content,
                   final_usage_data, consumed, r_status, conn>>

\* ------------------------------------------------------------------ Next
Next ==
    \/ RejectNoKey
    \/ RejectNoMessages
    \/ AcceptRequest
    \/ EmitRole
    \/ StreamCallRaises
    \/ StreamCallOk
    \/ StreamCallRefused
    \/ FallbackRaises
    \/ FallbackReturns
    \/ FallbackDone
    \/ FallbackReturn
    \/ ReadLine
    \/ StreamEnds
    \/ StreamBreaks
    \/ AfterError
    \/ EmitDone
    \/ Finish
    \/ Cancel
    \/ NonStreamRaises
    \/ NonStreamReturns

Spec == Init /\ [][Next]_vars

\* ------------------------------------- the request-building specification
\* The messages members of the requests.
PlainMsgs == ListOf(<<Msg(Str("user"), Str("hello world"))>>)
BareMsgs == ListOf(<<Msg(Absent, Absent)>>)
ImageMsgs ==
    ListOf(<<Msg(Str("system"), Str("be brief")),
             Msg(Str("user"), ListContent(<<TextPart("{what}"), ImagePart("{img}")>>))>>)
PartsMsgs ==
    ListOf(<<Msg(Null, Null),
             Msg(Str("user"), ListContent(<<TextPart("{what}"), BarePart("7")>>))>>)

\* Requests that vary what normalize_messages reads: messages of every
\* shape, prompt and input missing, a string, the empty string or a number.
MessageBodies ==
    { Body(Model(<<"gpt-4o">>), st, ms, pr, inp, NoVal, NoVal, ListAbsent, FALSE) :
        st \in BOOLEAN,
        ms \in {ListAbsent, ListNull, ListOf(<<>>), ListOther, PlainMsgs, BareMsgs,
                ImageMsgs, PartsMsgs},
        pr \in {Absent, Str("say hi"), Str(""), Num("5")},
        inp \in {Absent, Str("tell me")} }

\* Requests that vary what the payload is built from: the model missing,
\* plain, allow-listed or with ":", temperature (in tenths) and max_tokens
\* missing, null, 0 or more, tools missing, null, empty or one definition.
ArgumentBodies ==
    { Body(mo, st, ms, Absent, Absent, te, mt, to, vi) :
        mo \in {NoModel, Model(<<"gpt-4o">>), Model(<<"o3-mini">>), Model(<<"o3">>),
                Model(<<"o4-mini">>),
                Model(<<"openrouter", ":", "moonshotai/kimi-k2", ":", "free">>),
                Model(<<"o3", ":", "beta">>)},
        st \in BOOLEAN,
        ms \in {PlainMsgs, ImageMsgs, PartsMsgs},
        te \in {NoVal, NullVal, NumVal(0), NumVal(7)},
        mt \in {NoVal, NullVal, NumVal(0), NumVal(256)},
        to \in {ListAbsent, ListNull, ListOf(<<>>), ListOf(<<"get_weather">>)},
        vi \in BOOLEAN }

Bodies == MessageBodies \cup ArgumentBodies

\* Any request arrives; the token library is absent.
InitReq ==
    /\ req_body \in Bodies
    /\ auth_header \in BaseAuths
    /\ API_TOKEN = ""
    /\ tiktoken = FALSE
    /\ peer = <<>>
    /\ cur = 1
    /\ Arrived

\* The handler with an upstream whose stream carries no line.
NextReq ==
    \/ RejectNoKey
    \/ RejectNoMessages
    \/ AcceptRequest
    \/ EmitRole
    \/ StreamCallRaises
    \/ StreamCallOk
    \/ StreamCallRefused
    \/ FallbackRaises
    \/ FallbackReturns
    \/ FallbackDone
    \/ FallbackReturn
    \/ StreamEnds
    \/ StreamBreaks
    \/ AfterError
    \/ EmitDone
    \/ Finish
    \/ Cancel
    \/ NonStreamRaises
    \/ NonStreamReturns

ReqSpec == InitReq /\ [][NextReq]_vars

\* ------------------------------------------------- credential resolution
\* Requests with every kind of Authorization header (a bearer key of 12, 9
\* and 8 characters, a key of 9 and of 8 characters between blanks, a long
\* key without the "Bearer " prefix, no header), in a process with and
\* without API_TOKEN set.
KeyInit ==
    /\ req_body \in BaseBodies
    /\ auth_header \in BaseAuths \cup
           {AuthHeader(TRUE, <<Txt("123456789")>>), AuthHeader(TRUE, <<Txt("12345678")>>),
            AuthHeader(TRUE, <<WS, Txt("123456789"), WS>>),
            AuthHeader(TRUE, <<WS, Txt("12345678"), WS>>),
            AuthHeader(FALSE, <<Txt("sk-123456789")>>)}
    /\ API_TOKEN \in {"", "tok"}
    /\ tiktoken = FALSE
    /\ peer = <<>>
    /\ cur = 1
    /\ Arrived

KeySpec == KeyInit /\ [][NextReq]_vars

\* ------------------------------------------- two requests in one process
\* Everything one request owns: the locals of chat_completions and of its
\* generate(), the connection it opened, what it has sent and returned.
Local ==
    [stream |-> stream, user_text |-> user_text, pc |-> pc, frames |-> frames,
     accumulated_content |-> accumulated_content, final_usage_data |-> final_usage_data,
     consumed |-> consumed, r_status |-> r_status, exc |-> exc, conn |-> conn,
     non_stream_resp |-> non_stream_resp, calls |-> calls, response |-> response,
     req_body |-> req_body, auth_header |-> auth_header, api_key |-> api_key,
     req_messages |-> req_messages, payload |-> payload, headers |-> headers]

\* The server passes from the running request to the other one: the locals
\* of the first are set aside as they are and those of the second are
\* taken up again.  The process-wide state is what both of them see.
Switch ==
    /\ peer # <<>>
    /\ peer' = Local
    /\ cur' = 3 - cur
    /\ stream' = peer.stream
    /\ user_text' = peer.user_text
    /\ pc' = peer.pc
    /\ frames' = peer.frames
    /\ accumulated_content' = peer.accumulated_content
    /\ final_usage_data' = peer.final_usage_data
    /\ consumed' = peer.consumed
    /\ r_status' = peer.r_status
    /\ exc' = peer.exc
    /\ conn' = peer.conn
    /\ non_stream_resp' = peer.non_stream_resp
    /\ calls' = peer.calls
    /\ response' = peer.response
    /\ req_body' = peer.req_body
    /\ auth_header' = peer.auth_header
    /\ api_key' = peer.api_key
    /\ req_messages' = peer.req_messages
    /\ payload' = peer.payload
    /\ headers' = peer.headers
    /\ UNCHANGED <<tiktoken, API_TOKEN, PUTER_HEADERS_TEMPLATE>>

\* Lines each of the two upstream streams may deliver.
PairMaxLines == 1

\* Two streaming requests with different keys and different texts have
\* arrived; the first is running.
PairInit ==
    /\ req_body = SimpleBody(TRUE, "hello world")
    /\ auth_header = AuthHeader(TRUE, <<Txt("sk-123456789")>>)
    /\ API_TOKEN = ""
    /\ tiktoken = FALSE
    /\ Arrived
    /\ peer = [Local EXCEPT !.req_body = SimpleBody(TRUE, ""),
                            !.auth_header = AuthHeader(TRUE, <<Txt("sk-987654321")>>)]
    /\ cur = 1

\* The streaming path of either request, interleaved step by step.
PairNext ==
    \/ AcceptRequest
    \/ EmitRole
    \/ StreamCallRaises
    \/ StreamCallOk
    \/ StreamCallRefused
    \/ FallbackRaises
    \/ FallbackReturns
    \/ FallbackDone
    \/ FallbackReturn
    \/ ReadLine /\ Len(consumed') <= PairMaxLines
                /\ consumed'[Len(consumed')] \in {L_hel, L_lo, L_usage}
    \/ StreamEnds
    \/ StreamBreaks
    \/ AfterError
    \/ EmitDone
    \/ Finish
    \/ Switch

PairSpec == PairInit /\ [][PairNext]_vars

\* ======================================================== properties
IsRoleAnnounce(f) == f.data = "chunk" /\ f.delta = "role"
IsContentDelta(f) == f.data = "chunk" /\ f.delta = "content"
IsFinalUsage(f) == f.data = "chunk" /\ f.delta = "empty" /\ f.has_usage
IsDone(f) == f.data = "DONE"

\* RoleAnnounce, ContentDelta*, FinalUsage, Done
MatchesPattern(fs) ==
    /\ Len(fs) >= 3
    /\ IsRoleAnnounce(fs[1])
    /\ \A i \in 2..(Len(fs) - 2) : IsContentDelta(fs[i])
    /\ IsFinalUsage(fs[Len(fs) - 1])
    /\ IsDone(fs[Len(fs)])

\* The generator has stopped without the caller having disconnected.
Stopped == pc \in {"done", "crashed"}

\* The fallback call returned a success answer carrying a non-empty text.
FallbackAnswered ==
    /\ non_stream_resp.ok /\ non_stream_resp.isjson
    /\ non_stream_resp.data.t = "obj" /\ non_stream_resp.data.success
    /\ non_stream_resp.data.result.t = "dict"
    /\ non_stream_resp.data.result.message.t = "dict"
    /\ non_stream_resp.data.result.message.content.t = "str"
    /\ non_stream_resp.data.result.message.content.s # ""

\* C1: in a streaming request no frame is ever emitted after a sentinel, and
\* the frames of a stream that ran to its end are one role chunk, content
\* deltas, one final usage chunk and one sentinel, in that order.
C1_EventPattern ==
    stream =>
        /\ \A i \in 1..Len(frames) : IsDone(frames[i]) => i = Len(frames)
        /\ pc = "done" => MatchesPattern(frames)

\* C2: when the streaming call is refused and the fallback call answers with
\* text T, the finished stream is exactly the role chunk, one content delta
\* carrying T, the final usage chunk and the sentinel.
C2_FallbackSequence ==
    (stream /\ pc = "done" /\ r_status = 500 /\ FallbackAnswered) =>
        /\ Len(frames) = 4
        /\ IsRoleAnnounce(frames[1])
        /\ IsContentDelta(frames[2])
        /\ frames[2].content = non_stream_resp.data.result.message.content
        /\ IsFinalUsage(frames[3])
        /\ IsDone(frames[4])

\* C3: a streaming request that stopped without being cancelled has emitted
\* the final usage chunk, and the last frame it emitted is the sentinel.
C3_StopsWithSentinel ==
    (stream /\ Stopped) =>
        /\ \E i \in 1..Len(frames) : IsFinalUsage(frames[i])
        /\ frames # <<>> /\ IsDone(frames[Len(frames)])

\* C4: after a connection-level failure of the upstream, the stream that
\* stopped ends with exactly one diagnostic content delta, then the final
\* usage chunk, then the sentinel.
C4_ConnectionFailure ==
    (stream /\ exc = "conn" /\ Stopped) =>
        /\ Len(frames) >= 4
        /\ frames[Len(frames) - 2] = err_chunk(Str(ProxyError))
        /\ IsFinalUsage(frames[Len(frames) - 1])
        /\ IsDone(frames[Len(frames)])
        /\ Cardinality({i \in 1..Len(frames) : frames[i].content = Str(ProxyError)}) = 1

\* C5: in a streaming request the role chunk is the first frame, no other
\* frame is a role chunk, and it is emitted before any upstream call.
C5_RoleFirst ==
    stream =>
        /\ pc # "start" => frames # <<>>
        /\ calls # <<>> => frames # <<>>
        /\ frames # <<>> => IsRoleAnnounce(frames[1])
        /\ \A i \in 2..Len(frames) : ~IsRoleAnnounce(frames[i])

\* C5 witness: a stream that issued both upstream calls and emitted frames
\* after the role chunk.
C5_Witness ==
    stream /\ Len(calls) = 2 /\ Len(frames) >= 3 /\ IsRoleAnnounce(frames[1])

\* C6: a streaming request issues at most two upstream calls, the first with
\* the stream flag and the second, without it, only after a non-success
\* status of the first; a non-streaming request issues at most one.
C6_OneShotFallback ==
    /\ stream =>
        /\ Len(calls) <= 2
        /\ Len(calls) >= 1 => calls[1].args_stream
        /\ Len(calls) = 2 => (~calls[2].args_stream /\ r_status \notin {0, 200})
    /\ ~stream =>
        /\ Len(calls) <= 1
        /\ Len(calls) = 1 => ~calls[1].args_stream

\* C6 witness: a stream whose fallback call failed has ended with two calls.
C6_Witness ==
    stream /\ pc = "done" /\ Len(calls) = 2 /\ r_status = 500 /\ ~non_stream_resp.ok

\* The parsed JSON document of a line (Scalar when it has none).
PartOf(l) ==
    LET s == StripDataPrefix(l)
    IN  IF IsJson(s) THEN s[1].part ELSE Scalar

\* The line is not blank and json.loads rejects it.
NotJson(l) == StripDataPrefix(l) # <<>> /\ ~IsJson(StripDataPrefix(l))

\* The texts of the content deltas among the frames, in order.
DeltaTexts(fs) ==
    LET cs == SelectSeq(fs, IsContentDelta)
    IN  [i \in 1..Len(cs) |-> cs[i].content]

\* The usage records handed to the caller so far.
EmittedUsage ==
    {frames[i].usage : i \in {j \in 1..Len(frames) : frames[j].has_usage}}
        \cup (IF response.kind = "completion" THEN {response.usage} ELSE {})

\* C7: reading a line never ends the loop: the connection stays open and the
\* relay goes on to the next line; a line that is not JSON adds exactly one
\* content delta carrying the stripped line.
C7_LineNeverAborts ==
    [][Len(consumed') = Len(consumed) + 1 =>
        LET l == consumed'[Len(consumed')]
        IN  /\ pc' \in {"loop", "y_delta"}
            /\ conn' = "open"
            /\ exc' = "none"
            /\ l = L_garbage => frames' = Append(frames, content_chunk(Str("oops")))
            /\ NotJson(l) =>
                /\ Len(frames') = Len(frames) + 1
                /\ IsContentDelta(frames'[Len(frames')])
                /\ frames'[Len(frames')].content = Str(SrcText(StripDataPrefix(l)))
                /\ pc' = "y_delta"]_vars

\* C7 witness: a line that is not JSON was forwarded as "oops" and the next
\* line was still read and relayed.
C7_Witness ==
    /\ Len(consumed) >= 2 /\ pc = "y_delta"
    /\ consumed[Len(consumed) - 1] = L_garbage
    /\ consumed[Len(consumed)] = L_lo
    /\ Len(frames) >= 3
    /\ frames[Len(frames) - 1].content = Str("oops")
    /\ frames[Len(frames)].content = Str("lo")

\* {"type":"text","text":t} with a string t
IsTextFragment(l) ==
    PartOf(l).t = "obj" /\ PartOf(l).type = "text" /\ PartOf(l).text.t = "str"

\* The non-null amounts the usage array gives for a type.
Amounts(items, ty) ==
    {items[i].amount : i \in {j \in 1..Len(items) :
                                  items[j].type = ty /\ items[j].amount.t # "null"}}

\* A final object that carries usage only: no top-level text key, a result
\* object without message text, and a usage array with integer prompt and
\* completion amounts.
IsUsageFinal(l) ==
    LET p == PartOf(l)
    IN  /\ p.t = "obj" /\ p.text.t = "absent"
        /\ p.result.t = "dict"
        /\ p.result.message.t # "nondict"
        /\ ~Truthy(p.result.message.content)
        /\ p.result.usage.t = "list"
        /\ \E a \in Amounts(p.result.usage.items, "prompt") : a.t = "int"
        /\ \E a \in Amounts(p.result.usage.items, "completion") : a.t = "int"
        /\ \A a \in Amounts(p.result.usage.items, "prompt")
                    \cup Amounts(p.result.usage.items, "completion") : a.t = "int"

\* The stream consisted of text fragments followed by a usage-bearing final
\* object, and the relay has left the loop normally.
FragmentsThenUsage ==
    /\ stream /\ r_status = 200 /\ exc = "none"
    /\ pc \in {"y_final", "y_done", "done", "crashed"}
    /\ consumed # <<>>
    /\ \A i \in 1..(Len(consumed) - 1) : IsTextFragment(consumed[i])
    /\ IsUsageFinal(consumed[Len(consumed)])

FragmentTexts == [i \in 1..(Len(consumed) - 1) |-> PartOf(consumed[i]).text]

RECURSIVE ConcatTexts(_)
ConcatTexts(ts) == IF ts = <<>> THEN "" ELSE Head(ts).s \o ConcatTexts(Tail(ts))

NonEmptyText(v) == v.s # ""

\* The final usage chunk reports the counts of the upstream usage object.
UsageFromUpstream ==
    LET items == PartOf(consumed[Len(consumed)]).result.usage.items
    IN  \E i \in 1..Len(frames) :
            /\ IsFinalUsage(frames[i])
            /\ frames[i].usage.prompt_tokens \in Amounts(items, "prompt")
            /\ frames[i].usage.completion_tokens \in Amounts(items, "completion")

C9_TotalIsSum ==
    \A u \in EmittedUsage :
        LET p == OrZero(u.prompt_tokens)
            c == OrZero(u.completion_tokens)
        IN  /\ u.ok
            /\ p.t = c.t
            /\ p.t = "int" => u.total_tokens = AmtInt(p.n + c.n)
            /\ p.t = "str" => u.total_tokens = AmtStr(p.s \o c.s)

\* C9 witness: a stream ended with upstream counts 7 and 2 and total 9, and
\* so did a non-streaming reply.
C9_Witness ==
    \E u \in EmittedUsage :
        /\ u.prompt_tokens = AmtInt(7) /\ u.completion_tokens = AmtInt(2)
        /\ u.total_tokens = AmtInt(9)
        /\ pc = "done"

\* The upstream document the usage of the request was extracted from.
UsageSource ==
    IF stream
    THEN (IF final_usage_data.t # "none" THEN final_usage_data ELSE EmptyDict)
    ELSE non_stream_resp.data

\* The output text the usage of the request was estimated from.
OutputText == IF stream THEN accumulated_content ELSE response.content

\* C10: each of prompt and completion is the upstream amount when the usage
\* array has a non-null amount of that type (0 included), and otherwise the
\* local estimate of the input text (prompt) or output text (completion).
C10_PerFieldFallback ==
    \A u \in EmittedUsage :
        LET usage == UsageSource.result.usage
            items == IF usage.t = "list" THEN usage.items ELSE <<>>
        IN  /\ Amounts(items, "prompt") # {} =>
                   u.prompt_tokens \in Amounts(items, "prompt")
            /\ Amounts(items, "prompt") = {} =>
                   /\ u.prompt_tokens.t = "int"
                   /\ u.prompt_tokens.n \in estimate_tokens(Str(user_text))
            /\ Amounts(items, "completion") # {} =>
                   u.completion_tokens \in Amounts(items, "completion")
            /\ Amounts(items, "completion") = {} =>
                   /\ u.completion_tokens.t = "int"
                   /\ u.completion_tokens.n \in estimate_tokens(OutputText)

\* C10 witness: the upstream gave a prompt amount only; the final chunk
\* reports it and estimates the completion alone.
C10_Witness ==
    /\ stream /\ pc = "done" /\ ~tiktoken
    /\ final_usage_data.result.usage = UsagePromptOnly
    /\ accumulated_content = Str("Hello")
    /\ \E u \in EmittedUsage :
           u.prompt_tokens = AmtInt(9) /\ u.completion_tokens = AmtInt(1)

\* ------------------------------------------------- request-side helpers
\* A non-empty string.
UsableString(v) == v.t = "str" /\ v.s # ""

\* The messages member is missing, null or an empty list.
AbsentOrEmpty(m) == m.t \in {"absent", "null"} \/ (m.t = "list" /\ m.items = <<>>)

\* The request carried a credential of more than 8 characters.
ValidCredential == auth_header.bearer /\ Len(SrcText(strip(auth_header.token))) > 8

\* The handler has run past its validation, or has returned.
Handled == pc # "recv"

\* The payloads of the upstream calls issued so far.
SentPayloads == {calls[i].payload : i \in 1..Len(calls)}

\* C11: a request with a valid credential whose messages member is absent
\* or empty and whose prompt and input hold no non-empty string is answered
\* 400 with an error envelope, and no upstream call is ever issued for it,
\* whether or not it asks for a stream.
C11_EmptyRequestRejected ==
    (/\ Handled
     /\ ValidCredential
     /\ AbsentOrEmpty(req_body.messages)
     /\ ~UsableString(req_body.prompt)
     /\ ~UsableString(req_body.input)) =>
        /\ response.status = 400
        /\ response.kind = "error"
        /\ calls = <<>>
        /\ frames = <<>>

\* C11 witness: a streaming request with an empty messages list and an
\* empty prompt has been answered 400.
C11_Witness ==
    /\ pc = "rejected"
    /\ ValidCredential
    /\ req_body.stream
    /\ req_body.messages = ListOf(<<>>)
    /\ req_body.prompt = Str("")
    /\ response.status = 400
    /\ calls = <<>>

\* The non-streaming handler has returned or died.
NonStreamEnded == ~stream /\ pc \in {"done", "crashed"}

\* The upstream body of the non-streaming call has a true success flag.
SuccessFlag ==
    /\ non_stream_resp.isjson
    /\ non_stream_resp.data.t = "obj"
    /\ non_stream_resp.data.success

\* C12: a non-streaming request answers 502 with a message only when the
\* upstream call raised, 502 with details when the upstream status is not a
\* success or the body has no true success flag, and a 200 completion in
\* every other case.
C12_NonStreamOutcome ==
    NonStreamEnded =>
        IF non_stream_resp = NoResp
        THEN response.status = 502 /\ response.kind = "error" /\ ~response.details
        ELSE IF ~non_stream_resp.ok
        THEN response.status = 502 /\ response.kind = "error" /\ response.details
        ELSE IF ~SuccessFlag
        THEN response.status = 502 /\ response.kind = "error" /\ response.details
        ELSE response.status = 200 /\ response.kind = "completion"

\* The model identifier of the request is o3-mini, o3 or o4-mini.
OnNoTemperatureList ==
    /\ req_body.model.t = "str"
    /\ req_body.model.id \in {<<"o3-mini">>, <<"o3">>, <<"o4-mini">>}

\* C13: for a model on the no-temperature list, no payload sent upstream
\* (non-streaming call, streaming attempt, fallback call) has a temperature
\* in its args, whatever temperature the caller supplied.
C13_TemperatureDropped ==
    OnNoTemperatureList =>
        /\ ~payload.args.temperature.present
        /\ \A pl \in SentPayloads : ~pl.args.temperature.present

\* C13 witness: o3-mini with temperature 0.7 in streaming mode; both the
\* streaming attempt and the fallback call were sent.
C13_Witness ==
    /\ req_body.model = Model(<<"o3-mini">>)
    /\ req_body.temperature = NumVal(7)
    /\ Len(calls) = 2
    /\ calls[1].args_stream /\ ~calls[2].args_stream
    /\ calls[1].payload.args.stream /\ ~calls[2].payload.args.stream

\* The pieces of an identifier written out as one text.
RECURSIVE JoinPieces(_)
JoinPieces(ps) == IF ps = <<>> THEN "" ELSE Head(ps) \o JoinPieces(Tail(ps))

\* The identifier the request names (the default when it names none).
RequestedModel ==
    IF req_body.model.t = "str" THEN req_body.model.id ELSE <<"gpt-4.1-nano">>

\* The driver the claim prescribes for an identifier.
ExpectedDriver(id) ==
    IF \E k \in 1..Len(id) : id[k] = ":"
    THEN LET k == CHOOSE k \in 1..Len(id) :
                      id[k] = ":" /\ \A j \in 1..(k - 1) : id[j] # ":"
         IN  JoinPieces(SubSeq(id, 1, k - 1))
    ELSE "openai-completion"

\* C14: every payload names as driver the text before the first ":" of the
\* model identifier, or "openai-completion" when the identifier has no ":",
\* and passes the whole identifier as args.model.
C14_DriverSelection ==
    \A pl \in SentPayloads :
        /\ pl.driver = ExpectedDriver(RequestedModel)
        /\ pl.args.model = RequestedModel

\* C14 witness: openrouter:moonshotai/kimi-k2:free was sent to the driver
\* openrouter with the identifier whole.
C14_Witness ==
    /\ req_body.model = Model(<<"openrouter", ":", "moonshotai/kimi-k2", ":", "free">>)
    /\ calls # <<>>
    /\ calls[1].payload.driver = "openrouter"
    /\ JoinPieces(calls[1].payload.args.model) = "openrouter:moonshotai/kimi-k2:free"

\* normalize_messages has run on the request; req_messages is what it returned.
Normalized == pc # "recv" /\ response.status # 401

\* The request body with its messages member replaced by a list.
WithMessages(ms) == [req_body EXCEPT !.messages = ListOf(ms)]

\* C15 as stated: for every request body, normalizing the body whose
\* messages member is the normalizer's output returns that output again.
C15_Idempotent ==
    Normalized => normalize_messages(WithMessages(req_messages)) = req_messages

\* C15 amended: the same, for the bodies whose messages member is a list,
\* null or missing.
C15_IdempotentOnLists ==
    (Normalized /\ req_body.messages.t \in {"absent", "null", "list"}) =>
        normalize_messages(WithMessages(req_messages)) = req_messages

\* C15 witness: a message without role and content was normalized to the
\* defaults, and a prompt rides along in the body.
C15_Witness ==
    /\ Normalized
    /\ req_body.messages = BareMsgs
    /\ UsableString(req_body.prompt)
    /\ req_messages = <<Msg(Str("user"), Str(""))>>

C17_LegacyFallback ==
    Normalized =>
        IF AbsentOrEmpty(req_body.messages)
        THEN IF UsableString(req_body.prompt)
             THEN req_messages = <<Msg(Str("user"), req_body.prompt)>>
             ELSE IF UsableString(req_body.input)
             THEN req_messages = <<Msg(Str("user"), req_body.input)>>
             ELSE req_messages = <<>>
        ELSE req_messages =
                 normalize_messages([req_body EXCEPT !.prompt = Absent, !.input = Absent])

\* Some normalized message has a list content with an image part.
HasImagePart ==
    \E i \in 1..Len(req_messages) :
        /\ req_messages[i].content.t = "list"
        /\ \E j \in 1..Len(req_messages[i].content.parts) :
               req_messages[i].content.parts[j].k = "image_url"

\* C18: the args of every payload carry vision exactly when some normalized
\* message has a list content with an image part, whatever vision value the
\* body supplied.
C18_VisionDerived ==
    \A pl \in SentPayloads : pl.args.vision <=> HasImagePart

\* C18 witness: the body said vision and has no image part; the payload
\* sent has no vision flag.
C18_Witness ==
    /\ req_body.vision
    /\ req_body.messages = PartsMsgs
    /\ calls # <<>>
    /\ ~calls[1].payload.args.vision

\* C19: max_tokens is in args exactly when the caller gave a non-null one,
\* temperature exactly when the caller gave a non-null one and the model is
\* not on the no-temperature list, tools exactly when the caller gave tool
\* definitions; what is there is the caller's value.
C19_NoDefaulting ==
    \A pl \in SentPayloads :
        /\ pl.args.max_tokens.present <=> req_body.max_tokens.t = "num"
        /\ pl.args.max_tokens.present => pl.args.max_tokens.v = req_body.max_tokens.v
        /\ pl.args.temperature.present <=>
               (req_body.temperature.t = "num" /\ ~OnNoTemperatureList)
        /\ pl.args.temperature.present => pl.args.temperature.v = req_body.temperature.v
        /\ pl.args.tools.present <=>
               (req_body.tools.t = "list" /\ req_body.tools.items # <<>>)
        /\ pl.args.tools.present => pl.args.tools.v = req_body.tools.items

\* C19 witness: max_tokens 0 and temperature 0 were supplied with one tool
\* and all three were sent; the fallback call was made too.
C19_Witness ==
    /\ req_body.max_tokens = NumVal(0)
    /\ req_body.temperature = NumVal(0)
    /\ req_body.tools = ListOf(<<"get_weather">>)
    /\ Len(calls) = 2
    /\ calls[2].payload.args.max_tokens = Present(0)
    /\ calls[2].payload.args.temperature = Present(0)
    /\ calls[2].payload.args.tools.v = <<"get_weather">>

\* The positions of the chunks that carry a usage member.
UsageChunks == {i \in 1..Len(frames) : frames[i].data = "chunk" /\ frames[i].has_usage}

\* C20: a streaming response that stopped without being cancelled has exactly
\* one chunk with a usage member; no JSON chunk follows it, and it is neither
\* the role chunk nor a content chunk.
C20_UsageOnFinalChunkOnly ==
    (stream /\ Stopped) =>
        /\ Cardinality(UsageChunks) = 1
        /\ \A i \in UsageChunks :
               /\ \A j \in (i + 1)..Len(frames) : IsDone(frames[j])
               /\ ~IsRoleAnnounce(frames[i]) /\ ~IsContentDelta(frames[i])

\* The relay is no longer running: it returned, died or was closed.
RelayOver == pc \in {"done", "crashed", "cancelled"}

\* C21: when the caller disconnects at a frame of a status-200 stream, that
\* step closes the upstream response and reads nothing; once closed, the
\* relay can read no further line; and a relay that is over never holds an
\* open upstream response.
C21_CancelReleases ==
    /\ [](RelayOver => conn # "open")
    /\ [](pc = "cancelled" => ~ENABLED ReadLine)
    /\ [][(pc' = "cancelled" /\ pc # "cancelled" /\ r_status = 200) =>
             /\ conn' = "closed"
             /\ consumed' = consumed
             /\ calls' = calls]_vars

\* C21 witness: the caller left after the delta of the second line of a
\* status-200 stream, and the upstream response is closed.
C21_Witness ==
    /\ pc = "cancelled"
    /\ r_status = 200
    /\ Len(consumed) = 2
    /\ IsContentDelta(frames[Len(frames)])
    /\ conn = "closed"

\* C22: whatever the upstream does, a request that went upstream and ended
\* has answered its caller: a non-streaming one with an error envelope or a
\* completion, a streaming one with a stream whose last two frames are the
\* final usage chunk and the sentinel.
C22_AlwaysAnswered ==
    /\ NonStreamEnded => response.kind \in {"error", "completion"}
    /\ (stream /\ Stopped) =>
           /\ Len(frames) >= 2
           /\ IsFinalUsage(frames[Len(frames) - 1])
           /\ IsDone(frames[Len(frames)])

\* The streaming call was issued and raised instead of returning a response.
StreamCallFailed == stream /\ calls # <<>> /\ r_status = 0

\* The non-streaming call raised.
NonStreamCallFailed == NonStreamEnded /\ non_stream_resp = NoResp

\* C23 as stated: a streaming call that fails at the connection level is
\* followed by the one non-streaming fallback call; a non-streaming call
\* that fails so is answered 502.
C23_TransportErrorFallsBack ==
    /\ (StreamCallFailed /\ Stopped) => (Len(calls) = 2 /\ ~calls[2].args_stream)
    /\ NonStreamCallFailed => (response.status = 502 /\ response.kind = "error")

\* C23 amended: a streaming call that fails at the connection level is the
\* only upstream call of its request and is followed by the diagnostic
\* content delta; a non-streaming call that fails so is answered 502.
C23_TransportErrorDiagnosed ==
    /\ StreamCallFailed =>
           /\ Len(calls) = 1
           /\ Len(frames) >= 2
           /\ IsContentDelta(frames[2]) /\ frames[2].content = Str(ProxyError)
    /\ NonStreamCallFailed => (response.status = 502 /\ response.kind = "error")

\* C23 witness: the streaming call raised and the stream ran to its end
\* with that one call.
C23_Witness ==
    /\ StreamCallFailed
    /\ pc = "done"
    /\ Len(calls) = 1
    /\ frames[2].content = Str(ProxyError)

\* C24: every usage record handed to the caller has integers for
\* prompt_tokens, completion_tokens and total_tokens.
C24_ConcreteIntegers ==
    \A u \in EmittedUsage :
        /\ u.prompt_tokens.t = "int"
        /\ u.completion_tokens.t = "int"
        /\ u.total_tokens.t = "int"

\* C25: once the final usage chunk is out, the accumulated text is the
\* texts of the content deltas of the stream, concatenated in order.
C25_AccumulatedIsConcat ==
    (stream /\ pc \in {"y_final", "y_done", "done"}) =>
        accumulated_content.s = ConcatTexts(DeltaTexts(frames))

\* The line is a JSON object whose result is an object with a usage member.
HasUsageField(l) ==
    /\ PartOf(l).t = "obj"
    /\ PartOf(l).result.t = "dict"
    /\ PartOf(l).result.usage.t # "absent"

\* The line is blank or nothing but a "data:" prefix.
BlankLine(l) == StripDataPrefix(l) = <<>>

\* The line is a JSON object without a top-level text member whose result
\* is an object with a non-empty usage value and without message text.
UsageOnly(l) ==
    /\ PartOf(l).t = "obj"
    /\ PartOf(l).text = Absent
    /\ PartOf(l).result.t = "dict"
    /\ PartOf(l).result.message.t # "nondict"
    /\ ~Truthy(PartOf(l).result.message.content)
    /\ \/ PartOf(l).result.usage.t = "other"
       \/ PartOf(l).result.usage.t = "list" /\ PartOf(l).result.usage.items # <<>>

SelectedText(part) ==
    IF part.type = "text" /\ part.text # Absent THEN part.text
    ELSE IF part.text # Absent THEN part.text
    ELSE IF part.result.t = "dict" /\ part.result.message.t = "dict"
    THEN part.result.message.content
    ELSE Absent

\* C27: reading a JSON object adds the one content delta carrying the text
\* of the highest-priority shape the object matches when that text is a
\* non-empty string, and no frame otherwise.
C27_ShapePriority ==
    [][(Len(consumed') = Len(consumed) + 1
          /\ PartOf(consumed'[Len(consumed')]).t = "obj") =>
        LET t == SelectedText(PartOf(consumed'[Len(consumed')]))
        IN  IF UsableString(t)
            THEN frames' = Append(frames, content_chunk(t))
            ELSE frames' = frames]_vars

\* C27 witness: an object matching all three shapes was read and its
\* top-level text alone was relayed.
C27_Witness ==
    /\ consumed = <<L_multi>>
    /\ pc = "y_delta"
    /\ DeltaTexts(frames) = <<Str("top")>>

\* The line makes the loop body yield a content delta.
Emits(l) == ProcessLine(l).emit

\* The deltas the lines read so far give rise to, in line order.
DeltasOfLines ==
    LET ls == SelectSeq(consumed, Emits)
    IN  [i \in 1..Len(ls) |-> Str(ProcessLine(ls[i]).text)]

\* C28: while a status-200 stream is relayed, the deltas handed to the
\* caller are those of the lines read so far, in line order, none held
\* back; a step reads one line, and the delta of that line is out, with the
\* relay suspended at it, before any other line can be read.
C28_NoBuffering ==
    /\ [](pc \in {"loop", "y_delta"} => DeltaTexts(frames) = DeltasOfLines)
    /\ [][consumed' # consumed =>
             /\ Len(consumed') = Len(consumed) + 1
             /\ SubSeq(consumed', 1, Len(consumed)) = consumed
             /\ Emits(consumed'[Len(consumed')]) =>
                    /\ pc' = "y_delta"
                    /\ Len(frames') = Len(frames) + 1
                    /\ IsContentDelta(frames'[Len(frames')])]_vars

\* C28 witness: two fragments were read and both deltas are out, in order,
\* before a third line is read.
C28_Witness ==
    /\ consumed = <<L_hel, L_lo>>
    /\ pc = "y_delta"
    /\ DeltaTexts(frames) = <<Str("Hel"), Str("lo")>>

\* C30: the streaming attempt sends the base payload with stream set in its
\* args and nothing else changed; the fallback call sends the base payload
\* itself, whose args have no stream member; and the base payload stays
\* what the handler built.
C30_FallbackSamePayload ==
    /\ [](stream =>
            /\ ~payload.args.stream
            /\ payload = BuildPayload(req_body, req_messages)
            /\ Len(calls) >= 1 =>
                   /\ calls[1].payload.args.stream
                   /\ [calls[1].payload EXCEPT !.args.stream = FALSE] = payload
            /\ Len(calls) = 2 =>
                   /\ calls[2].payload = payload
                   /\ ~calls[2].payload.args.stream)
    /\ [][pc # "recv" => payload' = payload]_vars

\* C30 witness: a request with max_tokens and a tool went through the
\* streaming attempt and the fallback call.
C30_Witness ==
    /\ stream
    /\ Len(calls) = 2
    /\ payload.args.max_tokens = Present(256)
    /\ payload.args.tools.present
    /\ calls[1].payload.args.stream
    /\ calls[2].payload = payload

\* What one request, given by its locals R, shows when it has dealt only
\* with its own request and its own upstream: key, headers, messages,
\* payload and input text derive from its own body and Authorization
\* header; each call it issued carries its headers and its payload; while
\* it relays, its deltas and accumulated text are those of the lines its
\* own stream delivered; the usage object it holds came from one of its
\* own lines or from its own fallback response.
OwnOnly(R) ==
    /\ R.pc # "recv" =>
           /\ R.api_key = get_effective_api_key(R.auth_header, API_TOKEN)
           /\ R.headers["Authorization"] = "Bearer " \o R.api_key
           /\ R.req_messages = normalize_messages(R.req_body)
           /\ R.payload = BuildPayload(R.req_body, R.req_messages)
           /\ R.user_text = UserTextConcat(R.req_messages)
    /\ \A i \in 1..Len(R.calls) :
           /\ R.calls[i].headers = R.headers
           /\ [R.calls[i].payload EXCEPT !.args.stream = FALSE] = R.payload
    /\ R.pc \in {"loop", "y_delta"} =>
           LET ls == SelectSeq(R.consumed, Emits)
           IN  /\ DeltaTexts(R.frames) = [i \in 1..Len(ls) |-> Str(ProcessLine(ls[i]).text)]
               /\ R.accumulated_content.s = ConcatTexts(DeltaTexts(R.frames))
    /\ R.final_usage_data # None =>
           \/ \E i \in 1..Len(R.consumed) :
                  /\ ProcessLine(R.consumed[i]).capture
                  /\ R.final_usage_data = StripDataPrefix(R.consumed[i])[1].part
           \/ R.final_usage_data = R.non_stream_resp.data

\* C29: with two streaming requests interleaved step by step in one
\* process, the module-level header table is never written, a step of the
\* running request leaves the locals of the suspended one as they are, a
\* switch hands each its own locals back unchanged, and each request shows
\* only its own key, payload, lines, deltas, accumulated text and usage
\* source, as it does when it runs alone.
C29_RequestsIsolated ==
    /\ [](OwnOnly(Local) /\ OwnOnly(peer))
    /\ [][PUTER_HEADERS_TEMPLATE' = PUTER_HEADERS_TEMPLATE]_vars
    /\ [][cur' = cur => peer' = peer]_vars
    /\ [][cur' # cur => peer' = Local /\ Local' = peer]_vars

\* C29 witness: both requests are in flight at once, each past its own
\* upstream call with its own key, the running one relaying a fragment of
\* its stream while the suspended one holds the usage object of its own
\* fallback response.
C29_Witness ==
    /\ pc = "y_delta"
    /\ consumed = <<L_hel>>
    /\ accumulated_content = Str("Hel")
    /\ final_usage_data = None
    /\ peer.pc = "y_fb_chunk"
    /\ peer.final_usage_data = peer.non_stream_resp.data
    /\ peer.accumulated_content # accumulated_content
    /\ calls[1].headers["Authorization"] # peer.calls[1].headers["Authorization"]
    /\ calls[1].payload # peer.calls[1].payload

\* C31: the key the handler resolves is the bearer token of the
\* Authorization header, trimmed, iff that is longer than 8 characters, and
\* the API_TOKEN value otherwise; a request for which this is empty is
\* answered 401 with an error envelope, with no upstream call and before
\* its messages are looked at, and no other request is answered 401.
C31_CredentialResolution ==
    LET trimmed == SrcText(strip(auth_header.token))
        fromHeader == auth_header.bearer /\ Len(trimmed) > 8
        resolved == IF fromHeader THEN trimmed ELSE API_TOKEN
    IN  /\ (auth_header = AuthHeader(TRUE, <<WS, Txt("123456789"), WS>>)) =>
               resolved = "123456789"
        /\ (auth_header = AuthHeader(TRUE, <<WS, Txt("12345678"), WS>>)) =>
               resolved = API_TOKEN
        /\ (pc # "recv" /\ resolved # "") =>
               /\ api_key = resolved
               /\ response.status # 401
               /\ \A i \in 1..Len(calls) :
                      calls[i].headers["Authorization"] = "Bearer " \o resolved
        /\ (pc # "recv" /\ resolved = "") =>
               /\ pc = "rejected"
               /\ response = Reply(401, "error", FALSE, Absent, NoUsageKey)
               /\ calls = <<>>
               /\ req_messages = <<>>
               /\ frames = <<>>

\* C31 witness: a request without messages whose header key is 8 characters
\* between blanks, in a process without API_TOKEN, was answered 401 and not
\* 400.
C31_Witness ==
    /\ auth_header = AuthHeader(TRUE, <<WS, Txt("12345678"), WS>>)
    /\ API_TOKEN = ""
    /\ req_body = EmptyBody
    /\ pc = "rejected"
    /\ response.status = 401
    /\ calls = <<>>

\* C32: every content delta handed to the caller carries a non-empty
\* string, whichever path produced it (a JSON fragment, a line that is not
\* JSON, the fallback body, the diagnostic of a failure), and a line that
\* gives no text leaves the relay running.
C32_NoEmptyDelta ==
    /\ \A i \in 1..Len(frames) :
           IsContentDelta(frames[i]) =>
               frames[i].content.t = "str" /\ frames[i].content.s # ""
    /\ (pc = "loop" /\ consumed # <<>> /\ ~Emits(consumed[Len(consumed)])) =>
           conn = "open"

\* The lines read so far that are not blank.
NonBlankRead == SelectSeq(consumed, LAMBDA l : strip(l) # <<>>)

\* C33: on the status-200 path the content deltas handed to the caller are
\* never more than the non-blank lines read, plus one when the connection
\* failed, and reading one line adds at most one content delta.
C33_AtMostOneDeltaPerLine ==
    /\ [](r_status = 200 =>
             Len(DeltaTexts(frames)) <=
                 Len(NonBlankRead) + (IF exc = "none" THEN 0 ELSE 1))
    /\ [][consumed' # consumed =>
             Len(DeltaTexts(frames')) <= Len(DeltaTexts(frames)) + 1]_vars

\* C33 witness: the bound is met: two non-blank lines gave two deltas, the
\* connection then failed and the diagnostic is the third.
C33_Witness ==
    /\ r_status = 200
    /\ exc = "conn"
    /\ pc = "done"
    /\ consumed = <<L_hel, L_blank, L_lo>>
    /\ Len(DeltaTexts(frames)) = 3

\* The line is a JSON object without a top-level text member whose result
\* is an object with a non-empty usage value.
UsageBearing(l) ==
    /\ ~BlankLine(l)
    /\ IsJson(StripDataPrefix(l))
    /\ PartOf(l).t = "obj"
    /\ PartOf(l).text = Absent
    /\ PartOf(l).result.t = "dict"
    /\ UsageTruthy(PartOf(l).result.usage)

\* C34: on the status-200 path the usage object held is that of the last
\* line read that is an object without a top-level text member and with a
\* result object carrying a non-empty usage value, and none when no such
\* line was read; usage in an object with a top-level text member is not
\* taken.
C34_LastUsageObjectWins ==
    r_status = 200 =>
        LET bearing == SelectSeq(consumed, UsageBearing)
        IN  final_usage_data =
                IF bearing = <<>> THEN None ELSE PartOf(bearing[Len(bearing)])

\* The chunks of the stream that carry finish_reason "stop".
StopChunks == SelectSeq(frames, LAMBDA f : f.data = "chunk" /\ f.finish_reason = "stop")

\* C35: a streaming response that has ended holds exactly one chunk with
\* finish_reason "stop", the final usage chunk with its empty delta, and
\* every role and content chunk of any stream has finish_reason null.
C35_OneStopChunk ==
    /\ (stream /\ pc \in {"done", "crashed"}) =>
           Len(StopChunks) = 1 /\ IsFinalUsage(StopChunks[1])
    /\ \A i \in 1..Len(frames) :
           (frames[i].data = "chunk" /\ frames[i].delta \in {"role", "content"}) =>
               frames[i].finish_reason = "null"

\* The fallback call of a streaming request has returned a response.
FallbackReturned == stream /\ Len(calls) = 2 /\ non_stream_resp # NoResp

\* The raw body of the fallback response is the one content delta, no
\* upstream usage object is held, and the final usage chunk, once out,
\* carries counts estimated from the input text and from that body.
RawBodyForwarded ==
    /\ DeltaTexts(frames) = <<Str(non_stream_resp.text)>>
    /\ accumulated_content = Str(non_stream_resp.text)
    /\ final_usage_data = None
    /\ \A i \in UsageChunks :
           /\ frames[i].usage.prompt_tokens \in
                  {AmtInt(k) : k \in estimate_tokens(Str(user_text))}
           /\ frames[i].usage.completion_tokens \in
                  {AmtInt(k) : k \in estimate_tokens(Str(non_stream_resp.text))}

\* C36 as stated: a fallback response with a success status whose body has
\* no true success flag, whatever the body is, has its raw body forwarded
\* as the single content delta with estimated usage; one with a non-success
\* status gives no content delta.
C36_FallbackFailureForwarded ==
    FallbackReturned =>
        /\ (non_stream_resp.ok /\ ~SuccessFlag) => RawBodyForwarded
        /\ ~non_stream_resp.ok => DeltaTexts(frames) = <<>>

\* C36: a fallback response with a success status whose body is a JSON
\* object with a false or missing success flag has its raw body forwarded
\* as the single content delta, and the final usage is estimated locally;
\* one with a non-success status gives no content delta.
C36_FallbackFlagFalseForwarded ==
    FallbackReturned =>
        /\ (non_stream_resp.ok /\ non_stream_resp.isjson
               /\ non_stream_resp.data.t = "obj" /\ ~non_stream_resp.data.success) =>
               RawBodyForwarded
        /\ ~non_stream_resp.ok => DeltaTexts(frames) = <<>>

\* C36 witness: a stream whose fallback body was {"success": false} has
\* ended with that body as its only delta and a final usage chunk.
C36_Witness ==
    /\ FallbackReturned
    /\ non_stream_resp = R_fail
    /\ pc = "done"
    /\ DeltaTexts(frames) = <<Str("{fail}")>>
    /\ UsageChunks # {}

\* max(1, floor(L / 4)), written out: 1 below four characters, else the k
\* with 4k <= L < 4k + 4.
QuarterOf(L) ==
    IF L < 4 THEN 1 ELSE CHOOSE k \in 1..L : 4 * k <= L /\ L < 4 * (k + 1)

\* The length of the string form of a text value (null as the empty text).
FormLength(v) == IF v.t \in {"null", "absent"} THEN 0 ELSE Len(v.s)

====
